---- MODULE Spec2Model ----
(***************************************************************************)
(* fino-filing: the record model (Filing), the catalog, the local storage, *)
(* the locator and the Collection facade.                                  *)
(*                                                                         *)
(* Text is a sequence of one-character strings, so that concatenation,     *)
(* splitting on "/" and prefix stripping are computed as Python computes   *)
(* them.  A SHA-256 hex digest is one opaque character that is a function  *)
(* of the hashed text: distinct texts give distinct digests (collision     *)
(* resistance of SHA-256 is assumed, also of its 32-character prefix).     *)
(***************************************************************************)
EXTENDS Integers, Sequences, FiniteSets, TLC

VARIABLES
    filing,     \* the Filing object under construction / mutation (SpecFiling)
    rows,       \* catalog table `filings`: a set of rows
    columns,    \* catalog table `filings`: the physical column names, in order
    files,      \* the file system: path of a regular file -> bytes
    dirs,       \* the file system: the paths that are directories
    result      \* what the last call returned or raised

vars == <<filing, rows, columns, files, dirs, result>>

---------------------------------------------------------------------------
(* Bounds *)

\* number of distinct byte strings handed to add / save
NumContents == 2
\* number of distinct clock readings / timestamps
NumTimes == 2

---------------------------------------------------------------------------
(* Python values *)

None      == [t |-> "none", v |-> <<>>]
Absent    == [t |-> "absent", v |-> <<>>]     \* keyword argument not passed
Str(s)    == [t |-> "str", v |-> s]
Bool(b)   == [t |-> "bool", v |-> b]
IntV(i)   == [t |-> "int", v |-> i]
Dt(d)     == [t |-> "datetime", v |-> d]

\* Python ==: bool is a subclass of int (True == 1); other types compare by value
PyNum(a) == IF a.t = "bool" THEN (IF a.v THEN 1 ELSE 0) ELSE a.v
PyEq(a, b) ==
    IF a.t \in {"bool", "int"} /\ b.t \in {"bool", "int"}
    THEN PyNum(a) = PyNum(b)
    ELSE a = b

\* dict helpers
Put(d, k, val) == [x \in (DOMAIN d) \cup {k} |-> IF x = k THEN val ELSE d[x]]
Get(d, k) == IF k \in DOMAIN d THEN d[k] ELSE None
EmptyDict == [x \in {} |-> None]

RECURSIVE Concat(_)
Concat(ss) == IF ss = <<>> THEN <<>> ELSE Head(ss) \o Concat(Tail(ss))

RECURSIVE JoinWith(_, _)
JoinWith(sep, ss) ==
    IF ss = <<>> THEN <<>>
    ELSE IF Len(ss) = 1 THEN ss[1]
    ELSE ss[1] \o sep \o JoinWith(sep, Tail(ss))

Range(s) == {s[i] : i \in DOMAIN s}

\* hashlib.sha256(text).hexdigest(): one opaque character, injective in text
Sha256Hex(text) == <<ToString(<<"sha256">> \o text)>>

\* datetime.isoformat() and datetime.fromisoformat()
Times == 1..NumTimes
IsoFormat(d) == <<"T", ToString(d)>>
IsIso(s) == \E d \in Times : IsoFormat(d) = s
FromIsoFormat(s) == CHOOSE d \in Times : IsoFormat(d) = s

\* str(value)
PyStr(val) ==
    CASE val.t = "str" -> val.v
      [] val.t = "bool" -> IF val.v THEN <<"T", "r", "u", "e">>
                                    ELSE <<"F", "a", "l", "s", "e">>
      [] val.t = "int" -> <<ToString(val.v)>>
      [] val.t = "datetime" -> <<"D", ToString(val.v)>>
      [] OTHER -> <<"N", "o", "n", "e">>

---------------------------------------------------------------------------
(* Errors: every raised exception is a record of the same shape *)

NoErr == [kind |-> "none", fields |-> <<>>, a |-> None, b |-> None, c |-> None]
\* FieldImmutableError(field, current_value, attempt_value)
FieldImmutableError(name, cur, att) ==
    [kind |-> "FieldImmutableError", fields |-> <<name>>, a |-> cur, b |-> att, c |-> None]
\* FilingRequiredError(fields) / FilingValidationError(fields)
FilingRequiredError(names) ==
    [kind |-> "FilingRequiredError", fields |-> names, a |-> None, b |-> None, c |-> None]
FilingValidationError(names) ==
    [kind |-> "FilingValidationError", fields |-> names, a |-> None, b |-> None, c |-> None]

---------------------------------------------------------------------------
(* Record types: the schema the metaclass collects for each class *)

_core_fields == <<"id", "source", "checksum", "name", "is_zip", "format", "created_at">>

\* Field(indexed, immutable, required) with the annotated type, per core field
CoreField ==
    [id         |-> [type |-> "str",      indexed |-> TRUE, immutable |-> TRUE,  required |-> TRUE],
     source     |-> [type |-> "str",      indexed |-> TRUE, immutable |-> TRUE,  required |-> TRUE],
     checksum   |-> [type |-> "str",      indexed |-> TRUE, immutable |-> FALSE, required |-> TRUE],
     name       |-> [type |-> "str",      indexed |-> TRUE, immutable |-> TRUE,  required |-> TRUE],
     is_zip     |-> [type |-> "bool",     indexed |-> TRUE, immutable |-> FALSE, required |-> TRUE],
     format     |-> [type |-> "str",      indexed |-> TRUE, immutable |-> TRUE,  required |-> TRUE],
     created_at |-> [type |-> "datetime", indexed |-> TRUE, immutable |-> TRUE,  required |-> TRUE]]

\* class ExtendedIndexedAndNonIndexedFiling(Filing): doc_id (indexed), memo
ExtendedIndexedAndNonIndexedField ==
    [doc_id |-> [type |-> "str", indexed |-> TRUE,  immutable |-> FALSE, required |-> FALSE],
     memo   |-> [type |-> "str", indexed |-> FALSE, immutable |-> FALSE, required |-> FALSE]]

\* class AdditionalImmutableFieldFiling(Filing): three optional tokens, one immutable
AdditionalImmutableField ==
    [unspecified_mutable_token |->
        [type |-> "str", indexed |-> FALSE, immutable |-> FALSE, required |-> FALSE],
     mutable_token |->
        [type |-> "str", indexed |-> FALSE, immutable |-> FALSE, required |-> FALSE],
     immutable_token |->
        [type |-> "str", indexed |-> FALSE, immutable |-> TRUE, required |-> FALSE]]

\* class ExtendedFiling(Filing), defined inside a function: extra = ""
ExtendedField ==
    [extra |-> [type |-> "str", indexed |-> FALSE, immutable |-> FALSE, required |-> FALSE]]

\* class EDGARFiling(Filing): source = "EDGAR" and nine optional fields, two of
\* them timestamps
EDGARField ==
    [n \in {"cik", "accession_number", "company_name", "form_type", "filing_date",
            "period_of_report", "sic_code", "state_of_incorporation", "fiscal_year_end"} |->
        [type |-> IF n \in {"filing_date", "period_of_report"} THEN "datetime" ELSE "str",
         indexed |-> FALSE, immutable |-> FALSE, required |-> FALSE]]

Classes == {"Filing", "ExtendedIndexedAndNonIndexedFiling",
            "AdditionalImmutableFieldFiling", "ExtendedFiling", "EDGARFiling"}

\* cls._fields, as a sequence of names in declaration order
FieldNames(cls) ==
    CASE cls = "Filing" -> _core_fields
      [] cls = "ExtendedIndexedAndNonIndexedFiling" -> _core_fields \o <<"doc_id", "memo">>
      [] cls = "AdditionalImmutableFieldFiling" ->
            _core_fields \o <<"unspecified_mutable_token", "mutable_token", "immutable_token">>
      [] cls = "ExtendedFiling" -> _core_fields \o <<"extra">>
      [] cls = "EDGARFiling" ->
            _core_fields \o <<"cik", "accession_number", "company_name", "form_type",
                              "filing_date", "period_of_report", "sic_code",
                              "state_of_incorporation", "fiscal_year_end">>

\* cls._fields[name]
FieldOf(cls, name) ==
    IF name \in DOMAIN CoreField THEN CoreField[name]
    ELSE IF cls = "ExtendedIndexedAndNonIndexedFiling"
         THEN ExtendedIndexedAndNonIndexedField[name]
    ELSE IF cls = "AdditionalImmutableFieldFiling"
         THEN AdditionalImmutableField[name]
    ELSE IF cls = "EDGARFiling" THEN EDGARField[name]
         ELSE ExtendedField[name]

IsField(cls, name) == name \in Range(FieldNames(cls))

\* cls._defaults, as a sequence of <<name, value>> in insertion order
Defaults(cls) ==
    IF cls = "ExtendedFiling" THEN << <<"extra", Str(<<>>)>> >>
    ELSE IF cls = "EDGARFiling" THEN << <<"source", Str(<<"E", "D", "G", "A", "R">>)>> >>
    ELSE <<>>

\* the characters of each field name, and the names in sorted() order
NameChars ==
    [id         |-> <<"i", "d">>,
     source     |-> <<"s", "o", "u", "r", "c", "e">>,
     checksum   |-> <<"c", "h", "e", "c", "k", "s", "u", "m">>,
     name       |-> <<"n", "a", "m", "e">>,
     is_zip     |-> <<"i", "s", "_", "z", "i", "p">>,
     format     |-> <<"f", "o", "r", "m", "a", "t">>,
     created_at |-> <<"c", "r", "e", "a", "t", "e", "d", "_", "a", "t">>,
     doc_id     |-> <<"d", "o", "c", "_", "i", "d">>,
     memo       |-> <<"m", "e", "m", "o">>,
     extra      |-> <<"e", "x", "t", "r", "a">>,
     unspecified_mutable_token |->
        <<"u", "n", "s", "p", "e", "c", "i", "f", "i", "e", "d", "_",
          "m", "u", "t", "a", "b", "l", "e", "_", "t", "o", "k", "e", "n">>,
     mutable_token |-> <<"m", "u", "t", "a", "b", "l", "e", "_", "t", "o", "k", "e", "n">>,
     immutable_token |->
        <<"i", "m", "m", "u", "t", "a", "b", "l", "e", "_", "t", "o", "k", "e", "n">>,
     cik        |-> <<"c", "i", "k">>,
     accession_number |->
        <<"a", "c", "c", "e", "s", "s", "i", "o", "n", "_", "n", "u", "m", "b", "e", "r">>,
     company_name |-> <<"c", "o", "m", "p", "a", "n", "y", "_", "n", "a", "m", "e">>,
     form_type  |-> <<"f", "o", "r", "m", "_", "t", "y", "p", "e">>,
     filing_date |-> <<"f", "i", "l", "i", "n", "g", "_", "d", "a", "t", "e">>,
     period_of_report |->
        <<"p", "e", "r", "i", "o", "d", "_", "o", "f", "_", "r", "e", "p", "o", "r", "t">>,
     sic_code   |-> <<"s", "i", "c", "_", "c", "o", "d", "e">>,
     state_of_incorporation |->
        <<"s", "t", "a", "t", "e", "_", "o", "f", "_",
          "i", "n", "c", "o", "r", "p", "o", "r", "a", "t", "i", "o", "n">>,
     fiscal_year_end |->
        <<"f", "i", "s", "c", "a", "l", "_", "y", "e", "a", "r", "_", "e", "n", "d">>]

SortedNames == <<"accession_number", "checksum", "cik", "company_name", "created_at",
                 "doc_id", "extra", "filing_date", "fiscal_year_end", "form_type",
                 "format", "id", "immutable_token", "is_zip", "memo", "mutable_token",
                 "name", "period_of_report", "sic_code", "source",
                 "state_of_incorporation", "unspecified_mutable_token">>
Sorted(S) == SelectSeq(SortedNames, LAMBDA n : n \in S)

\* Filing.get_identity_fields
get_identity_fields(cls) ==
    LET core_id == {"format", "is_zip", "name", "source"}
        extra == {k \in Range(FieldNames(cls)) : k \notin Range(_core_fields)}
    IN Sorted(core_id \cup extra)

\* Filing.get_indexed_fields
get_indexed_fields(cls) ==
    SelectSeq(FieldNames(cls), LAMBDA n : FieldOf(cls, n).indexed)

---------------------------------------------------------------------------
(* Filing: id generation, attribute assignment, construction *)

\* _serialize_field_value
_serialize_field_value(val) ==
    IF val.t = "none" THEN <<>>
    ELSE IF val.t = "datetime" THEN IsoFormat(val.v)
    ELSE PyStr(val)

\* an id derived from every field but id itself, checksum and created_at included
GenerateIdFromAllFields(cls, data) ==
    LET names == SelectSeq(FieldNames(cls), LAMBDA n : n # "id")
        parts == [i \in DOMAIN names |->
                    NameChars[names[i]] \o <<"=">>
                        \o _serialize_field_value(Get(data, names[i]))]
    IN Str(Sha256Hex(JoinWith(<<"|">>, parts)))

\* _generate_filing_id
_generate_filing_id(cls, data) ==
    LET identity_names == get_identity_fields(cls)
        parts == [i \in DOMAIN identity_names |->
                    NameChars[identity_names[i]] \o <<"=">>
                        \o _serialize_field_value(Get(data, identity_names[i]))]
        payload == JoinWith(<<"|">>, parts)
    IN Str(Sha256Hex(payload))

\* an assignment that never checks immutability
SetAttrUnguarded(cls, data, name, val) ==
    IF IsField(cls, name)
    THEN [ok |-> TRUE, err |-> NoErr, data |-> Put(data, name, val)]
    ELSE [ok |-> TRUE, err |-> NoErr, data |-> data]

\* an assignment that rejects re-assigning the value an immutable field holds
SetAttrNoSameValue(cls, data, name, val) ==
    IF IsField(cls, name)
    THEN IF /\ FieldOf(cls, name).immutable
            /\ name \in DOMAIN data
            /\ data[name] # None
         THEN [ok |-> FALSE, err |-> FieldImmutableError(name, data[name], val), data |-> data]
         ELSE [ok |-> TRUE, err |-> NoErr, data |-> Put(data, name, val)]
    ELSE [ok |-> TRUE, err |-> NoErr, data |-> data]

\* Filing.__setattr__ on the _data of an instance of cls
SetAttrOp(cls, data, name, val) ==
    IF IsField(cls, name)
    THEN IF /\ FieldOf(cls, name).immutable
            /\ name \in DOMAIN data
            /\ data[name] # None
            /\ ~PyEq(data[name], val)
         THEN [ok |-> FALSE, err |-> FieldImmutableError(name, data[name], val), data |-> data]
         ELSE [ok |-> TRUE, err |-> NoErr, data |-> Put(data, name, val)]
    ELSE [ok |-> TRUE, err |-> NoErr, data |-> data]   \* plain attribute, not in _data

RECURSIVE SetAll(_, _, _)
SetAll(cls, data, kw) ==
    IF kw = <<>> THEN [ok |-> TRUE, err |-> NoErr, data |-> data]
    ELSE LET r == SetAttrOp(cls, data, kw[1][1], kw[1][2])
         IN IF r.ok THEN SetAll(cls, r.data, Tail(kw)) ELSE r

\* Field.validate_value: the value's runtime type is the declared type
validate_value(field, val) == val.t = field.type

\* Filing.__validate_fields: the names collected as required errors and as type errors
IsRequiredError(cls, data, n) == FieldOf(cls, n).required /\ Get(data, n) = None
IsCoreEmpty(data, n) == n \in Range(_core_fields) /\ Get(data, n) = Str(<<>>)
IsTypeError(cls, data, n) ==
    /\ ~IsRequiredError(cls, data, n)
    /\ \/ IsCoreEmpty(data, n)
       \/ /\ ~(~FieldOf(cls, n).required /\ Get(data, n) = None)
          /\ ~validate_value(FieldOf(cls, n), Get(data, n))
RequiredErrors(cls, data) ==
    SelectSeq(FieldNames(cls), LAMBDA n : IsRequiredError(cls, data, n))
TypeErrors(cls, data) ==
    SelectSeq(FieldNames(cls), LAMBDA n : IsTypeError(cls, data, n))
RaiseValidation(required_fields, type_fields) ==
    IF required_fields # <<>> THEN FilingRequiredError(required_fields)
    ELSE IF type_fields # <<>> THEN FilingValidationError(type_fields)
    ELSE NoErr
ValidateFields(cls, data) ==
    RaiseValidation(RequiredErrors(cls, data), TypeErrors(cls, data))

\* Filing.__init__(**kwargs) at clock reading `now`; kwargs is a sequence of
\* <<name, value>>.  gen tells whether the id was generated.
\* ... the validation that ends __init__
InitValidated(cls, gen, d, verr) ==
    [ok |-> d.ok /\ verr = NoErr,
     err |-> IF d.ok THEN verr ELSE d.err,
     cls |-> cls, data |-> d.data, gen |-> gen]
InitValidate(cls, gen, d) == InitValidated(cls, gen, d, ValidateFields(cls, d.data))
\* ... id generated when _data holds none
InitId(cls, d) ==
    IF d.ok /\ Get(d.data, "id") = None
    THEN InitValidate(cls, TRUE,
                      SetAttrOp(cls, d.data, "id", _generate_filing_id(cls, d.data)))
    ELSE InitValidate(cls, FALSE, d)
\* ... created_at filled with the clock when _data holds none
InitCreatedAt(cls, now, d) ==
    IF d.ok /\ Get(d.data, "created_at") = None
    THEN InitId(cls, SetAttrOp(cls, d.data, "created_at", Dt(now)))
    ELSE InitId(cls, d)
\* ... the keyword arguments, after the class defaults
InitKwargs(cls, kwargs, now, d) ==
    IF d.ok THEN InitCreatedAt(cls, now, SetAll(cls, d.data, kwargs))
    ELSE InitCreatedAt(cls, now, d)
InitFiling(cls, kwargs, now) ==
    InitKwargs(cls, kwargs, now, SetAll(cls, EmptyDict, Defaults(cls)))

---------------------------------------------------------------------------
(* Inputs of the record model *)

Chars_a      == <<"a">>
Chars_c      == <<"c">>
Chars_xbrl   == <<"x", "b", "r", "l">>
\* "a|source=b" and "b|source=c": values that contain the id payload separators
Chars_a_sep_b == <<"a", "|", "s", "o", "u", "r", "c", "e", "=", "b">>
Chars_b_sep_c == <<"b", "|", "s", "o", "u", "r", "c", "e", "=", "c">>

Contents == {<<"c", ToString(i)>> : i \in 1..NumContents}
Checksums == {Str(Sha256Hex(c)) : c \in Contents}

\* keyword arguments in declaration order, the Absent ones left out
Kw(pairs) == SelectSeq(pairs, LAMBDA p : p[2] # Absent)

\* a valid call of the base class, by the arguments that vary
FilingKw(i, s, k, n, z, t) ==
    Kw(<< <<"id", i>>, <<"source", s>>, <<"checksum", k>>, <<"name", n>>,
          <<"is_zip", z>>, <<"format", Str(Chars_xbrl)>>, <<"created_at", t>> >>)
Checksum1 == Str(Sha256Hex(<<"c", "1">>))

FilingKwargs ==
    {FilingKw(i, s, k, n, Bool(FALSE), t) :
        i \in {Absent, Str(<<"x">>)},
        s \in {Str(Chars_c), Str(Chars_b_sep_c)},
        k \in Checksums,
        n \in {Str(Chars_a), Str(Chars_a_sep_b)},
        t \in {Absent, Dt(1)}}
    \cup   \* calls that break a rule: wrong type, empty, missing, explicit None
    {FilingKw(Absent, Str(Chars_c), Checksum1, n, z, Absent) :
        n \in {Str(Chars_a), IntV(1), Str(<<>>), Absent, None},
        z \in {Bool(FALSE), Absent, Str(<<"z">>)}}
    \cup
    {FilingKw(None, Str(Chars_c), Checksum1, Str(Chars_a), Bool(FALSE), None)}
    \cup   \* explicit None for source, alone and with id and name
    {FilingKw(i, None, Checksum1, n, Bool(FALSE), Dt(1)) :
        i \in {None, Str(<<"x">>)},
        n \in {None, Str(Chars_a)}}

ExtendedIndexedAndNonIndexedKwargs ==
    {Kw(<< <<"source", Str(Chars_c)>>, <<"checksum", Checksum1>>,
           <<"name", Str(Chars_a)>>, <<"is_zip", Bool(FALSE)>>,
           <<"format", Str(Chars_xbrl)>>, <<"created_at", Dt(1)>>,
           <<"doc_id", d>>, <<"memo", m>> >>) :
        d \in {Absent, None, Str(<<>>), Str(<<"d">>)},
        m \in {Absent, Str(<<"m">>)}}

AdditionalImmutableKwargs ==
    {Kw(<< <<"source", Str(Chars_c)>>, <<"checksum", Checksum1>>,
           <<"name", Str(Chars_a)>>, <<"is_zip", Bool(FALSE)>>,
           <<"format", Str(Chars_xbrl)>>, <<"created_at", Dt(1)>>,
           <<"immutable_token", k>> >>) :
        k \in {Absent, Str(<<"t">>)}}

ExtendedKwargs ==
    {Kw(<< <<"source", Str(Chars_c)>>, <<"checksum", Checksum1>>,
           <<"name", Str(Chars_a)>>, <<"is_zip", Bool(FALSE)>>,
           <<"format", Str(Chars_xbrl)>>, <<"created_at", Dt(1)>>,
           <<"extra", e>> >>) :
        e \in {Absent, Str(<<"e">>)}}

\* EDGARFiling: source left to the class default or passed, the timestamp
\* field absent, None, a datetime, or the ISO text of one
EDGARKwargs ==
    {Kw(<< <<"source", sd[1]>>, <<"checksum", Checksum1>>,
           <<"name", Str(Chars_a)>>, <<"is_zip", Bool(FALSE)>>,
           <<"format", Str(Chars_xbrl)>>, <<"created_at", Dt(1)>>,
           <<"cik", Str(<<"k">>)>>, <<"filing_date", sd[2]>> >>) :
        sd \in {<<Absent, Absent>>, <<Absent, None>>, <<Absent, Dt(2)>>,
                <<Absent, Str(IsoFormat(2))>>,
                <<Str(<<"E", "D", "G", "A", "R">>), Dt(2)>>,
                <<Str(Chars_c), Dt(2)>>}}

\* calls whose format is a plain extension, one to be stripped and lowered, one
\* with a character outside the whitelist, and one of white space only
LocatorFormats == {Chars_xbrl, <<" ", ".", "P", "D", "F">>, <<"a", "/", "b">>,
                   <<"x", "-", "y", "_", "1">>, <<" ">>}
LocatorKwargs ==
    {Kw(<< <<"id", i>>, <<"source", Str(Chars_c)>>, <<"checksum", Checksum1>>,
           <<"name", Str(Chars_a)>>, <<"is_zip", z>>, <<"format", Str(f)>>,
           <<"created_at", Dt(1)>> >>) :
        i \in {Absent, Str(<<"x">>)}, z \in {Bool(FALSE), Bool(TRUE)},
        f \in LocatorFormats}

KwargsOf(cls) ==
    CASE cls = "Filing" -> FilingKwargs
      [] cls = "ExtendedIndexedAndNonIndexedFiling" -> ExtendedIndexedAndNonIndexedKwargs
      [] cls = "AdditionalImmutableFieldFiling" -> AdditionalImmutableKwargs
      [] cls = "ExtendedFiling" -> ExtendedKwargs
      [] cls = "EDGARFiling" -> EDGARKwargs

\* values assigned after construction, per attribute ("note" is not a declared field)
AssignNames == {"id", "source", "checksum", "name", "is_zip", "format", "created_at",
                "doc_id", "memo", "immutable_token", "filing_date", "note"}
AssignValues(name) ==
    CASE name = "id" -> {Str(<<"x">>), Str(<<"y">>)}
      [] name = "source" -> {Str(Chars_c)}
      [] name = "checksum" -> {None}
      [] name = "name" -> {Str(Chars_a)}
      [] name = "is_zip" -> {Bool(TRUE)}
      [] name = "format" -> {Str(<<"z", "i", "p">>)}
      [] name = "created_at" -> {Dt(1)}
      [] name = "doc_id" -> {Str(<<"d">>)}
      [] name = "memo" -> {IntV(1)}
      [] name = "immutable_token" -> {Str(<<"t">>), Str(<<"u">>)}
      [] name = "filing_date" -> {Dt(1)}
      [] name = "note" -> {Str(<<"m">>)}

---------------------------------------------------------------------------
(* Locator: record -> storage key *)

\* bool(value)
Truthy(val) ==
    CASE val.t = "none" -> FALSE
      [] val.t = "bool" -> val.v
      [] val.t = "int" -> val.v # 0
      [] val.t = "str" -> val.v # <<>>
      [] OTHER -> TRUE

UpperChars == <<"A", "B", "C", "D", "E", "F", "G", "H", "I", "J", "K", "L", "M",
                "N", "O", "P", "Q", "R", "S", "T", "U", "V", "W", "X", "Y", "Z">>
LowerChars == <<"a", "b", "c", "d", "e", "f", "g", "h", "i", "j", "k", "l", "m",
                "n", "o", "p", "q", "r", "s", "t", "u", "v", "w", "x", "y", "z">>
DigitChars == {"0", "1", "2", "3", "4", "5", "6", "7", "8", "9"}
\* str.lower, str.isalnum on one character
LowerChar(c) ==
    IF c \in Range(UpperChars)
    THEN LowerChars[CHOOSE i \in DOMAIN UpperChars : UpperChars[i] = c]
    ELSE c
Lower(s) == [i \in DOMAIN s |-> LowerChar(s[i])]
IsAlnum(c) == c \in Range(UpperChars) \cup Range(LowerChars) \cup DigitChars

\* str.lstrip(chars), str.rstrip(chars), str.strip()
RECURSIVE LStrip(_, _)
LStrip(s, cs) == IF s # <<>> /\ Head(s) \in cs THEN LStrip(Tail(s), cs) ELSE s
RECURSIVE RStrip(_, _)
RStrip(s, cs) ==
    IF s # <<>> /\ s[Len(s)] \in cs THEN RStrip(SubSeq(s, 1, Len(s) - 1), cs) ELSE s
Strip(s) == RStrip(LStrip(s, {" "}), {" "})

\* the format text after (format or "").strip().lstrip(".").lower()
CleanFormat(val) == IF Truthy(val) THEN Lower(LStrip(Strip(val.v), {"."})) ELSE <<>>
\* "." + fmt when fmt is non-empty and made of alphanumerics, "-" and "_"
SuffixOfFormat(fmt) ==
    IF fmt # <<>> /\ \A i \in DOMAIN fmt : IsAlnum(fmt[i]) \/ fmt[i] \in {"-", "_"}
    THEN <<".">> \o fmt
    ELSE <<>>
\* _suffix
_suffix(data) ==
    IF Truthy(Get(data, "is_zip")) THEN <<".", "z", "i", "p">>
    ELSE SuffixOfFormat(CleanFormat(Get(data, "format")))

\* a key made of the source and the extension only
ResolveWithoutId(data) == PyStr(Get(data, "source")) \o _suffix(data)

\* Locator.resolve
LocatorResolve(data) ==
    PyStr(Get(data, "source")) \o <<"/">> \o PyStr(Get(data, "id")) \o _suffix(data)

---------------------------------------------------------------------------
(* Local storage: a file system of paths (sequences of segments) *)

ValueError(msg) ==
    [kind |-> "ValueError", fields |-> <<>>, a |-> Str(<<msg>>), b |-> None, c |-> None]
OSError(kind) ==
    [kind |-> kind, fields |-> <<>>, a |-> None, b |-> None, c |-> None]

\* the storage's base directory, a directory outside it, and a symbolic link
\* inside the base directory that points to the outside directory
BaseDir == << <<"base">> >>
OutDir  == << <<"out">> >>
LinkPath == << <<"base">>, <<"l">> >>

\* str.split("/")
RECURSIVE SplitSlash(_)
SplitSlash(s) ==
    IF \A i \in DOMAIN s : s[i] # "/" THEN <<s>>
    ELSE <<SubSeq(s, 1, (CHOOSE i \in DOMAIN s :
                            s[i] = "/" /\ \A j \in 1..(i - 1) : s[j] # "/") - 1)>>
         \o SplitSlash(SubSeq(s, (CHOOSE i \in DOMAIN s :
                            s[i] = "/" /\ \A j \in 1..(i - 1) : s[j] # "/") + 1, Len(s)))
\* Path(key).parts of a relative key: empty and "." segments are dropped
PathParts(key) == SelectSeq(SplitSlash(key), LAMBDA seg : seg # <<>> /\ seg # <<".">>)

Parent(p) == IF p = <<>> THEN <<>> ELSE SubSeq(p, 1, Len(p) - 1)
\* one segment further from cur, links followed
StepInto(cur, seg) ==
    IF seg = <<".", ".">> THEN Parent(cur)
    ELSE IF Append(cur, seg) = LinkPath THEN OutDir
    ELSE Append(cur, seg)
RECURSIVE Walk(_, _)
Walk(cur, parts) ==
    IF parts = <<>> THEN cur ELSE Walk(StepInto(cur, Head(parts)), Tail(parts))
\* (base_dir / path).resolve(): an absolute key replaces the base directory
ResolvePath(key) ==
    IF key # <<>> /\ key[1] = "/" THEN Walk(<<>>, PathParts(key))
    ELSE Walk(BaseDir, PathParts(key))
\* Path.is_relative_to
IsRelativeTo(p, base) == Len(p) >= Len(base) /\ SubSeq(p, 1, Len(base)) = base

\* a sanitization that accepts ".." segments
SanitizeAllowDotDot(storage_key) ==
    IF storage_key = <<>> \/ storage_key[1] = "/"
    THEN [ok |-> FALSE, err |-> ValueError("storage_key must be a non-empty relative path"),
          path |-> <<>>]
    ELSE [ok |-> TRUE, err |-> NoErr, path |-> ResolvePath(storage_key)]

\* _sanitize_storage_key
_sanitize_storage_key(storage_key) ==
    IF storage_key = <<>> \/ storage_key[1] = "/"
    THEN [ok |-> FALSE, err |-> ValueError("storage_key must be a non-empty relative path"),
          path |-> <<>>]
    ELSE IF <<".", ".">> \in Range(PathParts(storage_key))
    THEN [ok |-> FALSE, err |-> ValueError("storage_key must not contain '..'"),
          path |-> <<>>]
    ELSE IF ~IsRelativeTo(ResolvePath(storage_key), BaseDir)
    THEN [ok |-> FALSE, err |-> ValueError("storage_key must not escape base_dir"),
          path |-> <<>>]
    ELSE [ok |-> TRUE, err |-> NoErr, path |-> ResolvePath(storage_key)]

Prefixes(p) == {SubSeq(p, 1, n) : n \in 0..Len(p)}
IoOp(op, path) == [op |-> op, path |-> path]

\* full_path.parent.mkdir(parents=True, exist_ok=True); full_path.write_bytes(content)
WriteFile(fs, ds, path, content) ==
    IF \E q \in Prefixes(Parent(path)) : q \in DOMAIN fs
    THEN [ok |-> FALSE,
          err |-> OSError(IF Parent(path) \in DOMAIN fs THEN "FileExistsError"
                          ELSE "NotADirectoryError"),
          files |-> fs, dirs |-> ds, path |-> path,
          io |-> <<IoOp("mkdir", Parent(path))>>]
    ELSE IF path \in ds
    THEN [ok |-> FALSE, err |-> OSError("IsADirectoryError"),
          files |-> fs, dirs |-> ds \cup Prefixes(Parent(path)), path |-> path,
          io |-> <<IoOp("mkdir", Parent(path)), IoOp("write", path)>>]
    ELSE [ok |-> TRUE, err |-> NoErr,
          files |-> Put(fs, path, content), dirs |-> ds \cup Prefixes(Parent(path)),
          path |-> path,
          io |-> <<IoOp("mkdir", Parent(path)), IoOp("write", path)>>]

\* ... the write at the sanitized path, or the sanitization's error
SaveSanitized(fs, ds, full_path, content) ==
    IF ~full_path.ok
    THEN [ok |-> FALSE, err |-> full_path.err,
          files |-> fs, dirs |-> ds, path |-> <<>>, io |-> <<>>]
    ELSE WriteFile(fs, ds, full_path.path, content)
\* LocalStorage.save(content, storage_key); storage_key is a str value or None
LocalStorageSave(fs, ds, storage_key, content) ==
    IF storage_key = None
    THEN [ok |-> FALSE, err |-> ValueError("storage_key is required"),
          files |-> fs, dirs |-> ds, path |-> <<>>, io |-> <<>>]
    ELSE SaveSanitized(fs, ds, _sanitize_storage_key(storage_key.v), content)

\* full_path.read_bytes()
ReadFile(fs, ds, path) ==
    IF path \in DOMAIN fs
    THEN [ok |-> TRUE, err |-> NoErr, content |-> fs[path], io |-> <<IoOp("read", path)>>]
    ELSE [ok |-> FALSE,
          err |-> OSError(IF path \in ds THEN "IsADirectoryError"
                          ELSE IF \E q \in Prefixes(path) : q \in DOMAIN fs
                               THEN "NotADirectoryError"
                               ELSE "FileNotFoundError"),
          content |-> <<>>, io |-> <<IoOp("read", path)>>]

\* LocalStorage.load_by_path(relative_path)
LoadSanitized(fs, ds, full_path) ==
    IF ~full_path.ok
    THEN [ok |-> FALSE, err |-> full_path.err, content |-> <<>>, io |-> <<>>]
    ELSE ReadFile(fs, ds, full_path.path)
load_by_path(fs, ds, relative_path) ==
    LoadSanitized(fs, ds, _sanitize_storage_key(relative_path))

---------------------------------------------------------------------------
(* Type resolver and catalog *)

CollectionChecksumMismatchError(filing_id, actual_checksum, expected_checksum) ==
    [kind |-> "CollectionChecksumMismatchError", fields |-> <<>>,
     a |-> filing_id, b |-> actual_checksum, c |-> expected_checksum]
CatalogRequiredValueError(field, actual_value) ==
    [kind |-> "CatalogRequiredValueError", fields |-> <<field>>,
     a |-> actual_value, b |-> None, c |-> None]

\* f"{type(filing).__module__}.{type(filing).__qualname__}"
ClassPath(cls) ==
    CASE cls = "Filing" -> <<"fino_filing.filing.filing.Filing">>
      [] cls = "ExtendedIndexedAndNonIndexedFiling" ->
            <<"test_init_extend.ExtendedIndexedAndNonIndexedFiling">>
      [] cls = "AdditionalImmutableFieldFiling" ->
            <<"test_init_extend.AdditionalImmutableFieldFiling">>
      [] cls = "ExtendedFiling" ->
            <<"test_add.TestCollection_Add.test_add_filing_and_content_success_with_inheritance.<locals>.ExtendedFiling">>
      [] cls = "EDGARFiling" -> <<"fino_filing.filing.filing_edger.EDGARFiling">>
\* the classes an import of the module followed by getattr reaches: the
\* module-level ones (a class defined inside a function is not an attribute
\* of its module)
ImportableClasses == {"Filing", "ExtendedIndexedAndNonIndexedFiling",
                      "AdditionalImmutableFieldFiling", "EDGARFiling"}
\* FilingResolver.resolve: the class, or "none"
ResolverResolve(name) ==
    IF ~Truthy(name) THEN "none"
    ELSE IF \E cls \in ImportableClasses : name = Str(ClassPath(cls))
    THEN CHOOSE cls \in ImportableClasses : name = Str(ClassPath(cls))
    ELSE "none"

\* a flat map that leaves out the fields holding None
ToDictOmitNone(data) ==
    [k \in {x \in DOMAIN data : data[x] # None} |->
        IF data[k].t = "datetime" THEN Str(IsoFormat(data[k].v)) ELSE data[k]]

\* Filing.to_dict
to_dict(data) ==
    [k \in DOMAIN data |-> IF data[k].t = "datetime" THEN Str(IsoFormat(data[k].v))
                           ELSE data[k]]
\* json.dumps(d, default=str) and json.loads: the text of a flat map of
\* strings, booleans, integers and nulls; any other value is written as str(value)
JsonDumps(d) ==
    [json |-> [k \in DOMAIN d |-> IF d[k].t \in {"str", "bool", "int", "none"} THEN d[k]
                                  ELSE Str(PyStr(d[k]))]]
JsonLoads(text) == text.json

\* the keyword arguments cls(**d) receives
ItemsOf(names, d) == [i \in DOMAIN names |-> <<names[i], d[names[i]]>>]
DictItems(d) == ItemsOf(Sorted(DOMAIN d), d)
Without(d, key) == [k \in (DOMAIN d) \ {key} |-> d[k]]

\* a restoration that leaves datetime fields as the stored text
FromDictKeepText(cls, d, now) == InitFiling(cls, DictItems(d), now)

\* Filing.from_dict on class cls
from_dict(cls, d, now) ==
    InitFiling(cls,
               DictItems([k \in DOMAIN d |->
                            IF /\ IsField(cls, k)
                               /\ FieldOf(cls, k).type = "datetime"
                               /\ d[k].t = "str"
                            THEN Dt(FromIsoFormat(d[k].v))
                            ELSE d[k]]),
               now)

\* a restoration that ignores the stored type name
ResolveAlwaysBase(raw) == "Filing"

\* Catalog._resolve_data_to_filing
ResolvedClass(raw) ==
    IF ResolverResolve(Get(raw, "_filing_class")) = "none" THEN "Filing"
    ELSE ResolverResolve(Get(raw, "_filing_class"))
_resolve_data_to_filing(raw, now) ==
    from_dict(ResolvedClass(raw), Without(raw, "_filing_class"), now)

\* Catalog.get_raw: SELECT data FROM filings WHERE id = ?
HasRow(rs, id) == \E row \in rs : PyEq(row.id, id)
get_raw(rs, id) == JsonLoads((CHOOSE row \in rs : PyEq(row.id, id)).data)

NotFound == [found |-> FALSE, ok |-> TRUE, err |-> NoErr, cls |-> "none", data |-> EmptyDict]
Restored(r) == [found |-> TRUE, ok |-> r.ok, err |-> r.err, cls |-> r.cls, data |-> r.data]
\* Catalog.get: nothing found, the restored record, or the error its constructor raised
CatalogGet(rs, id, now) ==
    IF ~HasRow(rs, id) THEN NotFound
    ELSE Restored(_resolve_data_to_filing(get_raw(rs, id), now))

\* _CORE_COLUMNS without "data"
CoreColumns == <<"id", "source", "checksum", "name", "is_zip", "format", "created_at">>
\* the core columns of filing_dict that are None or ""
MissingCore(filing_dict) ==
    SelectSeq(CoreColumns, LAMBDA key : \/ Get(filing_dict, key) = None
                                        \/ PyEq(Get(filing_dict, key), Str(<<>>)))
\* a schema step that never alters the table
EnsureNothing(cols, cls) == cols

\* Catalog._ensure_indexed_columns: ALTER TABLE ADD COLUMN for each indexed
\* field the table lacks
_ensure_indexed_columns(cols, cls) ==
    cols \o SelectSeq(get_indexed_fields(cls),
                      LAMBDA name : name \notin Range(cols) /\ name # "data")
\* the row INSERTed: id, the non-NULL physical column values, and data
RowOf(cols, cls, filing_dict) ==
    [id   |-> Get(filing_dict, "id"),
     vals |-> [col \in {c \in Range(cols) :
                          /\ c # "data"
                          /\ c \in Range(get_indexed_fields(cls)) \cup Range(CoreColumns)
                          /\ Get(filing_dict, c) # None}
                 |-> filing_dict[col]],
     data |-> JsonDumps(filing_dict)]
\* an INSERT OR REPLACE that appends a row whatever the table holds
InsertAppend(rs, row) == rs \cup {row}
\* INSERT OR REPLACE INTO filings
InsertOrReplace(rs, row) == {r \in rs : ~PyEq(r.id, row.id)} \cup {row}

IndexDict(cls, data) == Put(to_dict(data), "_filing_class", Str(ClassPath(cls)))
\* an index that adds the columns of the record's type before it validates
IndexEnsureFirst(rs, cols, cls, data) ==
    IF MissingCore(IndexDict(cls, data)) # <<>>
    THEN [ok |-> FALSE,
          err |-> CatalogRequiredValueError(
                      Head(MissingCore(IndexDict(cls, data))),
                      Get(IndexDict(cls, data), Head(MissingCore(IndexDict(cls, data))))),
          rows |-> rs, columns |-> _ensure_indexed_columns(cols, cls)]
    ELSE [ok |-> TRUE, err |-> NoErr,
          rows |-> InsertOrReplace(rs, RowOf(_ensure_indexed_columns(cols, cls), cls,
                                             IndexDict(cls, data))),
          columns |-> _ensure_indexed_columns(cols, cls)]
\* Catalog.index
CatalogIndex(rs, cols, cls, data) ==
    IF MissingCore(IndexDict(cls, data)) # <<>>
    THEN [ok |-> FALSE,
          err |-> CatalogRequiredValueError(
                      Head(MissingCore(IndexDict(cls, data))),
                      Get(IndexDict(cls, data), Head(MissingCore(IndexDict(cls, data))))),
          rows |-> rs, columns |-> cols]
    ELSE [ok |-> TRUE, err |-> NoErr,
          rows |-> InsertOrReplace(rs, RowOf(_ensure_indexed_columns(cols, cls), cls,
                                             IndexDict(cls, data))),
          columns |-> _ensure_indexed_columns(cols, cls)]

---------------------------------------------------------------------------
(* Collection facade.  st is the catalog and the file system:               *)
(* [rows, columns, files, dirs]                                             *)

AddFailed(st, err, skipped) ==
    [ok |-> FALSE, err |-> err, rows |-> st.rows, columns |-> st.columns,
     files |-> st.files, dirs |-> st.dirs, path |-> <<>>, skipped |-> skipped]

\* ... self._storage.save(content, storage_key=storage_key), last in add
AddStorage(st, saved, skipped) ==
    [ok |-> saved.ok, err |-> saved.err, rows |-> st.rows, columns |-> st.columns,
     files |-> saved.files, dirs |-> saved.dirs, path |-> saved.path,
     skipped |-> skipped]

\* ... the catalog row written when catalog.get finds none, before the save
AddIndexed(st, indexed, storage_key, content) ==
    IF ~indexed.ok THEN AddFailed(st, indexed.err, FALSE)
    ELSE AddStorage([st EXCEPT !.rows = indexed.rows, !.columns = indexed.columns],
                    LocalStorageSave(st.files, st.dirs, Str(storage_key), content),
                    FALSE)

\* an add that writes the catalog row whether or not the id has one
AddCatalogAlways(st, cls, data, content, now) ==
    AddIndexed(st, CatalogIndex(st.rows, st.columns, cls, data),
               LocatorResolve(data), content)

\* ... the duplicate check of add, existing being what catalog.get gave
AddChecked(st, cls, data, content, existing) ==
    IF ~existing.ok THEN AddFailed(st, existing.err, FALSE)
    ELSE IF existing.found
    THEN AddStorage(st, LocalStorageSave(st.files, st.dirs,
                                         Str(LocatorResolve(data)), content), TRUE)
    ELSE AddIndexed(st, CatalogIndex(st.rows, st.columns, cls, data),
                    LocatorResolve(data), content)
AddCatalog(st, cls, data, content, now) ==
    AddChecked(st, cls, data, content, CatalogGet(st.rows, Get(data, "id"), now))

\* an add that never compares checksums
AddUnchecked(st, cls, data, content, now) == AddCatalog(st, cls, data, content, now)

\* Collection.add(filing, content)
CollectionAdd(st, cls, data, content, now) ==
    IF ~PyEq(Str(Sha256Hex(content)), Get(data, "checksum"))
    THEN AddFailed(st, CollectionChecksumMismatchError(
                           Get(data, "id"), Str(Sha256Hex(content)),
                           Get(data, "checksum")), FALSE)
    ELSE AddCatalog(st, cls, data, content, now)

\* Collection.get_filing
get_filing(st, id, now) == CatalogGet(st.rows, id, now)

\* ... the load of get_content; FileNotFoundError becomes None
LoadFound(loaded) ==
    IF loaded.ok THEN [ok |-> TRUE, err |-> NoErr, found |-> TRUE, content |-> loaded.content]
    ELSE IF loaded.err.kind = "FileNotFoundError"
    THEN [ok |-> TRUE, err |-> NoErr, found |-> FALSE, content |-> <<>>]
    ELSE [ok |-> FALSE, err |-> loaded.err, found |-> FALSE, content |-> <<>>]
\* ... the path resolved from the restored record, then loaded
ContentOf(st, restored) ==
    IF ~restored.ok
    THEN [ok |-> FALSE, err |-> restored.err, found |-> FALSE, content |-> <<>>]
    ELSE IF ~restored.found
    THEN [ok |-> TRUE, err |-> NoErr, found |-> FALSE, content |-> <<>>]
    ELSE LoadFound(load_by_path(st.files, st.dirs, LocatorResolve(restored.data)))
\* Collection.get_content: the bytes, None (found = FALSE), or an error
get_content(st, id, now) == ContentOf(st, CatalogGet(st.rows, id, now))

\* the AttributeError Python raises for `obj.attr` on None
AttributeError(type_name, attr) ==
    [kind |-> "AttributeError", fields |-> <<>>, a |-> Str(type_name), b |-> Str(attr),
     c |-> None]
\* ... the path resolved last in Collection.get: Locator.resolve reads
\* filing.source, which raises on the None that get_filing gave
GetResolved(restored, loaded) ==
    IF ~restored.found
    THEN [ok |-> FALSE, err |-> AttributeError(<<"NoneType">>, <<"source">>),
          found |-> FALSE, cls |-> "none", data |-> EmptyDict,
          has_content |-> FALSE, content |-> <<>>, path |-> <<>>]
    ELSE [ok |-> TRUE, err |-> NoErr, found |-> TRUE, cls |-> restored.cls,
          data |-> restored.data, has_content |-> loaded.found,
          content |-> loaded.content, path |-> LocatorResolve(restored.data)]
\* ... an error of get_filing or get_content leaves Collection.get
GetLoaded(restored, loaded) ==
    IF ~restored.ok \/ ~loaded.ok
    THEN [ok |-> FALSE, err |-> IF ~restored.ok THEN restored.err ELSE loaded.err,
          found |-> FALSE, cls |-> "none", data |-> EmptyDict,
          has_content |-> FALSE, content |-> <<>>, path |-> <<>>]
    ELSE GetResolved(restored, loaded)
\* Collection.get: (filing, content, path)
collection_get(st, id, now) ==
    GetLoaded(get_filing(st, id, now), get_content(st, id, now))

---------------------------------------------------------------------------
(* State and the record-model actions *)

\* the object bound to f: its class and _data, and two history flags: whether
\* its id was generated by the constructor, and whether no assignment has
\* changed _data since construction
NoFiling == [cls |-> "none", data |-> EmptyDict, gen |-> FALSE, fresh |-> FALSE]

\* CREATE TABLE filings (...)
InitColumns == <<"id", "source", "checksum", "name", "is_zip", "format",
                 "created_at", "data">>

Init ==
    /\ filing = NoFiling
    /\ rows = {}
    /\ columns = InitColumns
    /\ files = EmptyDict
    /\ dirs = {<<>>, BaseDir, OutDir}
    /\ result = [op |-> "init", ok |-> TRUE, err |-> NoErr]

\* every constructor call of the model with its outcome, computed once
NewCalls == UNION {{<<cls, kwargs, now>> : kwargs \in KwargsOf(cls), now \in Times} :
                      cls \in Classes}
            \cup {<<"Filing", kwargs, 1>> : kwargs \in LocatorKwargs}
NewOutcome == [call \in NewCalls |-> InitFiling(call[1], call[2], call[3])]

\* cls(**kwargs): the new object, or the error raised
New(cls, kwargs, now) ==
    /\ result' = [op |-> "new", kwargs |-> kwargs] @@ NewOutcome[<<cls, kwargs, now>>]
    /\ UNCHANGED <<filing, rows, columns, files, dirs>>

\* f = <the object just constructed>
Bind ==
    /\ result.op = "new" /\ result.ok
    /\ filing' = [cls |-> result.cls, data |-> result.data, gen |-> result.gen,
                  fresh |-> TRUE]
    /\ UNCHANGED <<rows, columns, files, dirs, result>>

\* f.name = val
SetAttr(name, val) ==
    /\ filing # NoFiling
    /\ filing' = [filing EXCEPT
                    !.data = SetAttrOp(filing.cls, filing.data, name, val).data,
                    !.fresh = filing.fresh /\
                              SetAttrOp(filing.cls, filing.data, name, val).data = filing.data]
    /\ result' = [op |-> "setattr", name |-> name, val |-> val,
                  ok |-> SetAttrOp(filing.cls, filing.data, name, val).ok,
                  err |-> SetAttrOp(filing.cls, filing.data, name, val).err]
    /\ UNCHANGED <<rows, columns, files, dirs>>

\* d = f.to_dict()
ToDict ==
    /\ filing # NoFiling
    /\ result' = [op |-> "to_dict", ok |-> TRUE, err |-> NoErr, d |-> to_dict(filing.data)]
    /\ UNCHANGED <<filing, rows, columns, files, dirs>>

\* cls.from_dict(d), on the class of f or on the base class; __init__ reads the
\* clock only when d holds no created_at
FromDict(cls) ==
    /\ result.op = "to_dict"
    /\ cls \in {filing.cls, "Filing"}
    /\ \E now \in (IF Get(result.d, "created_at") = None THEN Times ELSE {1}) :
          result' = [op |-> "from_dict", on |-> cls] @@ from_dict(cls, result.d, now)
    /\ UNCHANGED <<filing, rows, columns, files, dirs>>

NextFiling ==
    \/ \E cls \in Classes : \E kwargs \in KwargsOf(cls) :
          \* __init__ reads the clock only when no created_at is passed
          \E now \in (IF \E i \in DOMAIN kwargs : /\ kwargs[i][1] = "created_at"
                                                   /\ kwargs[i][2] # None
                       THEN {1} ELSE Times) :
             New(cls, kwargs, now)
    \/ Bind
    \/ \E name \in AssignNames : \E val \in AssignValues(name) : SetAttr(name, val)
    \/ ToDict
    \/ \E cls \in Classes : FromDict(cls)

SpecFiling == Init /\ [][NextFiling]_vars

---------------------------------------------------------------------------
(* The locator on its own: resolve applied to constructed records *)

\* key = Locator().resolve(f)
Resolve ==
    /\ filing # NoFiling
    /\ result' = [op |-> "resolve", ok |-> TRUE, err |-> NoErr,
                  key |-> LocatorResolve(filing.data)]
    /\ UNCHANGED <<filing, rows, columns, files, dirs>>

NextLocator ==
    \/ \E kwargs \in LocatorKwargs : New("Filing", kwargs, 1)
    \/ Bind
    \/ \E name \in {"is_zip", "checksum"} : \E val \in AssignValues(name) :
          SetAttr(name, val)
    \/ Resolve

SpecLocator == Init /\ [][NextLocator]_vars

---------------------------------------------------------------------------
(* Assignments after construction, None and "" among the values assigned *)

\* constructor calls: the base class with an explicit and with a generated id,
\* and the subtype with two mutable additional fields (id generated)
MutatedKwargs(cls) ==
    IF cls = "Filing"
    THEN {FilingKw(i, Str(Chars_c), Checksum1, Str(Chars_a), Bool(FALSE), Dt(1)) :
             i \in {Absent, Str(<<"x">>)}}
    ELSE ExtendedIndexedAndNonIndexedKwargs
MutatedNames == {"id", "source", "checksum", "name", "is_zip", "format", "created_at",
                 "doc_id", "memo"}
MutatedValues(name) ==
    CASE name = "id" -> {Str(<<"y">>)}
      [] name = "source" -> {None, Str(<<>>), Str(Chars_c)}
      [] name = "checksum" -> {None, Str(<<>>), Str(Sha256Hex(<<"c", "2">>))}
      [] name = "name" -> {Str(<<>>)}
      [] name = "is_zip" -> {None, Bool(TRUE), Bool(FALSE)}
      [] name = "format" -> {None}
      [] name = "created_at" -> {None}
      [] name = "doc_id" -> {None, Str(<<"e">>)}
      [] name = "memo" -> {Str(<<"n">>)}

NextAssign ==
    \/ \E cls \in {"Filing", "ExtendedIndexedAndNonIndexedFiling"} :
          \E kwargs \in MutatedKwargs(cls) : New(cls, kwargs, 1)
    \/ Bind
    \/ \E name \in MutatedNames : \E val \in MutatedValues(name) : SetAttr(name, val)

SpecAssign == Init /\ [][NextAssign]_vars

---------------------------------------------------------------------------
(* The collection: add, get_filing, get_content *)

Content1 == <<"c", "1">>
Content2 == <<"c", "2">>
Rec(cls, kwargs) == [cls |-> cls, data |-> InitFiling(cls, kwargs, 1).data]
Assigned(r, name, val) == [r EXCEPT !.data = SetAttrOp(r.cls, r.data, name, val).data]

\* records handed to add: the same explicit id with the same and with another
\* source, a source the storage rejects, generated ids, a module-level
\* subtype, that subtype after memo = 1, and a subtype local to a function
RecX1 == Rec("Filing", FilingKw(Str(<<"x">>), Str(Chars_c), Str(Sha256Hex(Content1)),
                                Str(Chars_a), Bool(FALSE), Dt(1)))
RecX2 == Rec("Filing", FilingKw(Str(<<"x">>), Str(Chars_c), Str(Sha256Hex(Content2)),
                                Str(Chars_a), Bool(FALSE), Dt(2)))
RecX3 == Rec("Filing", FilingKw(Str(<<"x">>), Str(Chars_b_sep_c), Str(Sha256Hex(Content2)),
                                Str(Chars_a), Bool(FALSE), Dt(1)))
RecDots == Rec("Filing", FilingKw(Str(<<"y">>), Str(<<".", ".">>), Str(Sha256Hex(Content1)),
                                  Str(Chars_a), Bool(FALSE), Dt(1)))
RecGen == Rec("Filing", FilingKw(Absent, Str(Chars_c), Str(Sha256Hex(Content1)),
                                 Str(Chars_a), Bool(FALSE), Dt(1)))
RecSub == Rec("ExtendedIndexedAndNonIndexedFiling",
              Kw(<< <<"source", Str(Chars_c)>>, <<"checksum", Checksum1>>,
                    <<"name", Str(Chars_a)>>, <<"is_zip", Bool(FALSE)>>,
                    <<"format", Str(Chars_xbrl)>>, <<"created_at", Dt(1)>>,
                    <<"doc_id", Str(<<"d">>)>>, <<"memo", Str(<<"m">>)>> >>))
RecSubMemoInt == Assigned(RecSub, "memo", IntV(1))
RecLocal == Rec("ExtendedFiling",
                Kw(<< <<"source", Str(Chars_c)>>, <<"checksum", Checksum1>>,
                      <<"name", Str(Chars_a)>>, <<"is_zip", Bool(FALSE)>>,
                      <<"format", Str(Chars_xbrl)>>, <<"created_at", Dt(1)>>,
                      <<"extra", Str(<<"e">>)>> >>))
AddRecords == {RecX1, RecX2, RecX3, RecDots, RecGen, RecSub, RecSubMemoInt, RecLocal}
\* ids looked up: those of the records and one never added
LookupIds == {Get(r.data, "id") : r \in AddRecords} \cup {Str(<<"z">>)}

\* the clock readings a restoration of the row of id can see: __init__ reads
\* the clock only when the restored data holds no created_at
ClockReads(rs, id) ==
    IF HasRow(rs, id) /\ Get(get_raw(rs, id), "created_at") = None THEN Times
    ELSE {CHOOSE now \in Times : TRUE}

St == [rows |-> rows, columns |-> columns, files |-> files, dirs |-> dirs]
StNext == [rows |-> rows', columns |-> columns', files |-> files', dirs |-> dirs']

\* the outcomes CollectionAdd computes for add(r, content)
AddOutcomes(r, content) ==
    {CollectionAdd(St, r.cls, r.data, content, now) :
        now \in ClockReads(rows, Get(r.data, "id"))}

\* collection.add(r, content)
Add(r, content) ==
    \E out \in AddOutcomes(r, content) :
        /\ rows' = out.rows
        /\ columns' = out.columns
        /\ files' = out.files
        /\ dirs' = out.dirs
        /\ result' = [op |-> "add", cls |-> r.cls, data |-> r.data, content |-> content,
                      key |-> LocatorResolve(r.data),
                      ok |-> out.ok, err |-> out.err, path |-> out.path,
                      skipped |-> out.skipped]
        /\ UNCHANGED filing

\* collection.get_filing(id)
GetFiling(id) ==
    \E now \in ClockReads(rows, id) :
        /\ result' = [op |-> "get_filing", id |-> id] @@ get_filing(St, id, now)
        /\ UNCHANGED <<filing, rows, columns, files, dirs>>

\* collection.get_content(id)
GetContent(id) ==
    \E now \in ClockReads(rows, id) :
        /\ result' = [op |-> "get_content", id |-> id] @@ get_content(St, id, now)
        /\ UNCHANGED <<filing, rows, columns, files, dirs>>

\* collection.get(id)
GetRecord(id) ==
    \E now \in ClockReads(rows, id) :
        /\ result' = [op |-> "get", id |-> id] @@ collection_get(St, id, now)
        /\ UNCHANGED <<filing, rows, columns, files, dirs>>

Next ==
    \/ \E r \in AddRecords : \E content \in Contents : Add(r, content)
    \/ \E id \in LookupIds : GetFiling(id)
    \/ \E id \in LookupIds : GetContent(id)
    \/ \E id \in LookupIds : GetRecord(id)

Spec == Init /\ [][Next]_vars

---------------------------------------------------------------------------
(* The collection with records whose storage keys meet: the id "x.xbrl" with *)
(* a format outside the whitelist resolves to the key of the id "x"          *)

RecCollide == Rec("Filing",
                  Kw(<< <<"id", Str(<<"x", ".", "x", "b", "r", "l">>)>>,
                        <<"source", Str(Chars_c)>>,
                        <<"checksum", Str(Sha256Hex(Content2))>>,
                        <<"name", Str(Chars_a)>>, <<"is_zip", Bool(FALSE)>>,
                        <<"format", Str(<<"a", "/", "b">>)>>,
                        <<"created_at", Dt(1)>> >>))
KeyRecords == {RecX1, RecX2, RecGen, RecCollide, RecDots}
KeyIds == {Get(r.data, "id") : r \in KeyRecords}

NextKeys ==
    \/ \E r \in KeyRecords : \E content \in Contents : Add(r, content)
    \/ \E id \in KeyIds : GetContent(id)

SpecKeys == Init /\ [][NextKeys]_vars

---------------------------------------------------------------------------
(* The local storage on its own: save, load_by_path *)

\* the keys handed to the storage: empty, plain, nested, under a file, with a
\* "." segment, absolute, with ".." segments, and through the link
Key_link == <<"l", "/", "x">>
StorageKeys ==
    {Str(k) : k \in {<<>>, <<"x">>, <<"a">>, <<"a", "/", "x">>,
                     <<"a", "/", "x", "/", "y">>, <<".", "/", "x">>,
                     <<"/", "x">>, <<".", ".", "/", "x">>,
                     <<"a", "/", ".", ".", "/", "x">>, Key_link}}

\* storage.save(content, storage_key=key)
Save(key, content) ==
    \E out \in {LocalStorageSave(files, dirs, key, content)} :
        /\ files' = out.files
        /\ dirs' = out.dirs
        /\ result' = [op |-> "save", key |-> key, content |-> content,
                      ok |-> out.ok, err |-> out.err, path |-> out.path, io |-> out.io]
        /\ UNCHANGED <<filing, rows, columns>>

\* storage.load_by_path(key)
LoadByPath(key) ==
    /\ result' = [op |-> "load_by_path", key |-> Str(key)]
                    @@ load_by_path(files, dirs, key)
    /\ UNCHANGED <<filing, rows, columns, files, dirs>>

NextStorage ==
    \/ \E key \in StorageKeys \cup {None} : \E content \in Contents : Save(key, content)
    \/ \E key \in StorageKeys : LoadByPath(key.v)

SpecStorage == Init /\ [][NextStorage]_vars

---------------------------------------------------------------------------
(* The catalog on its own: index, index_batch, get, search, count, clear *)

\* longest list handed to index_batch
MaxBatch == 2

\* a clear that drops the table and creates it again
ClearDropTable(rs, cols) == [rows |-> {}, columns |-> InitColumns]

\* records handed to the catalog: two base records with the same id, a
\* module-level subtype with an indexed field, that subtype after memo = 1, a
\* subtype local to a function, and a base record after checksum = ""
CatalogRecords == {RecX1, RecX3, RecSub, RecSubMemoInt, RecLocal,
                   Assigned(RecGen, "checksum", Str(<<>>))}

\* the row index_batch builds for a record: filing_dict, its JSON text and the
\* value per column.  The rows of the model's records under the column lists
\* one schema step can leave are computed once.
BatchRows ==
    [cols \in {InitColumns} \cup {_ensure_indexed_columns(InitColumns, cls) : cls \in Classes} |->
        [r \in CatalogRecords |-> RowOf(cols, r.cls, IndexDict(r.cls, r.data))]]
BatchRow(cols, r) ==
    IF cols \in DOMAIN BatchRows /\ r \in CatalogRecords THEN BatchRows[cols][r]
    ELSE RowOf(cols, r.cls, IndexDict(r.cls, r.data))

\* Catalog.index_batch: the columns of every type first, then one INSERT OR
\* REPLACE per record, in order, against the final column list.  No record of
\* the model holds None in a core field, so NOT NULL never rejects a row.
RECURSIVE EnsureAll(_, _)
EnsureAll(cols, filings) ==
    IF filings = <<>> THEN cols
    ELSE EnsureAll(_ensure_indexed_columns(cols, Head(filings).cls), Tail(filings))
RECURSIVE InsertAll(_, _, _)
InsertAll(rs, cols, filings) ==
    IF filings = <<>> THEN rs
    ELSE InsertAll(InsertOrReplace(rs, BatchRow(cols, Head(filings))),
                   cols, Tail(filings))
index_batch(rs, cols, filings) ==
    [ok |-> TRUE, err |-> NoErr,
     rows |-> InsertAll(rs, EnsureAll(cols, filings), filings),
     columns |-> EnsureAll(cols, filings)]

\* Catalog.clear: DELETE FROM filings
clear(rs, cols) == [rows |-> {}, columns |-> cols]

\* Catalog.count(): SELECT COUNT(*) FROM filings
count(rs) == Cardinality(rs)

\* SELECT "col" FROM filings: a TIMESTAMP column gives back the timestamp whose
\* ISO text was inserted; NULL is None
ColumnValue(row, col) ==
    IF col \notin DOMAIN row.vals THEN None
    ELSE IF col = "created_at" /\ row.vals[col].t = "str" /\ IsIso(row.vals[col].v)
    THEN Dt(FromIsoFormat(row.vals[col].v))
    ELSE row.vals[col]

\* Catalog.search(): the data of every row ORDER BY created_at DESC (rows with
\* equal timestamps in any order), each restored; the first error is raised
Ordered(rs) ==
    {o \in [1..Cardinality(rs) -> rs] :
        /\ \A i, j \in DOMAIN o : i # j => o[i] # o[j]
        /\ \A i, j \in DOMAIN o :
              i < j => ColumnValue(o[i], "created_at").v >= ColumnValue(o[j], "created_at").v}
RestoreAll(raw_list, now) ==
    [i \in DOMAIN raw_list |-> _resolve_data_to_filing(JsonLoads(raw_list[i].data), now)]
SearchResult(restored) ==
    IF \E i \in DOMAIN restored : ~restored[i].ok
    THEN [ok |-> FALSE,
          err |-> restored[CHOOSE i \in DOMAIN restored :
                              /\ ~restored[i].ok
                              /\ \A j \in 1..(i - 1) : restored[j].ok].err,
          items |-> <<>>]
    ELSE [ok |-> TRUE, err |-> NoErr,
          items |-> [i \in DOMAIN restored |->
                        [cls |-> restored[i].cls, data |-> restored[i].data]]]
search(rs, now) == {SearchResult(RestoreAll(o, now)) : o \in Ordered(rs)}

\* records handed to index only: the subtype after checksum = None, after
\* checksum = None and is_zip = None, and after checksum = ""
BlankRecords == {Assigned(RecSub, "checksum", None),
                 Assigned(Assigned(RecSub, "checksum", None), "is_zip", None),
                 Assigned(RecSub, "checksum", Str(<<>>))}

\* the lists handed to index_batch: distinct records, at most MaxBatch of them
Batches ==
    UNION {{filings \in [1..n -> CatalogRecords] :
                \A i, j \in 1..n : i # j => filings[i] # filings[j]} : n \in 1..MaxBatch}

\* catalog.index(r)
Index(r) ==
    \E out \in {CatalogIndex(rows, columns, r.cls, r.data)} :
        /\ rows' = out.rows
        /\ columns' = out.columns
        /\ result' = [op |-> "index", cls |-> r.cls, data |-> r.data,
                      ok |-> out.ok, err |-> out.err]
        /\ UNCHANGED <<filing, files, dirs>>

\* catalog.index_batch(filings)
IndexBatch(filings) ==
    \E out \in {index_batch(rows, columns, filings)} :
        /\ rows' = out.rows
        /\ columns' = out.columns
        /\ result' = [op |-> "index_batch", filings |-> filings,
                      ok |-> out.ok, err |-> out.err]
        /\ UNCHANGED <<filing, files, dirs>>

\* catalog.get(id)
CatalogGetId(id) ==
    \E now \in ClockReads(rows, id) :
        /\ result' = [op |-> "get", id |-> id] @@ CatalogGet(rows, id, now)
        /\ UNCHANGED <<filing, rows, columns, files, dirs>>

\* catalog.search()
Search ==
    \E out \in search(rows, 1) :
        /\ result' = [op |-> "search"] @@ out
        /\ UNCHANGED <<filing, rows, columns, files, dirs>>

\* catalog.count()
Count ==
    /\ result' = [op |-> "count", ok |-> TRUE, err |-> NoErr, n |-> count(rows)]
    /\ UNCHANGED <<filing, rows, columns, files, dirs>>

\* catalog.clear()
Clear ==
    \E out \in {clear(rows, columns)} :
        /\ rows' = out.rows
        /\ columns' = out.columns
        /\ result' = [op |-> "clear", ok |-> TRUE, err |-> NoErr]
        /\ UNCHANGED <<filing, files, dirs>>

NextCatalog ==
    \/ \E r \in CatalogRecords \cup BlankRecords : Index(r)
    \/ \E filings \in Batches : IndexBatch(filings)
    \/ \E id \in LookupIds : CatalogGetId(id)
    \/ Search
    \/ Count
    \/ Clear

SpecCatalog == Init /\ [][NextCatalog]_vars

---------------------------------------------------------------------------
(* The metaclass: class definition.  A class is its _fields and _defaults,  *)
(* each an insertion-ordered dict written as a sequence of <<key, value>>.  *)
(* A class body is the Annotated declarations it makes, in order, and the   *)
(* plain assignments `name = value` it makes.                               *)

HasKey(od, k) == \E i \in DOMAIN od : od[i][1] = k
Lookup(od, k) == od[CHOOSE i \in DOMAIN od : od[i][1] = k][2]
Update(od, k, val) ==
    IF HasKey(od, k) THEN [i \in DOMAIN od |-> IF od[i][1] = k THEN <<k, val>> ELSE od[i]]
    ELSE Append(od, <<k, val>>)
Keys(od) == [i \in DOMAIN od |-> od[i][1]]

\* FilingImmutableError(fields)
FilingImmutableError(names) ==
    [kind |-> "FilingImmutableError", fields |-> names, a |-> None, b |-> None, c |-> None]

\* class Filing(metaclass=FilingMeta)
FilingClass ==
    [fields |-> [i \in DOMAIN _core_fields |-> <<_core_fields[i], CoreField[_core_fields[i]]>>],
     defaults |-> <<>>]

\* get_type_hints(cls, include_extras=True): the Annotated names of the bases
\* first, then the ones the body adds
HintNames(parent, body) ==
    Keys(parent.fields)
        \o SelectSeq(Keys(body.annotated), LAMBDA n : ~HasKey(parent.fields, n))

\* step 4, defaults: a hinted name whose class attribute is a plain value (one
\* the body assigns; an inherited one is the parent's Field descriptor)
RECURSIVE CollectDefaults(_, _, _)
CollectDefaults(defaults, names, attrs) ==
    IF names = <<>> THEN defaults
    ELSE CollectDefaults(IF HasKey(attrs, Head(names))
                         THEN Update(defaults, Head(names), Lookup(attrs, Head(names)))
                         ELSE defaults,
                         Tail(names), attrs)

\* step 4, fields: a Field already defined by a base is not set again
CollectFields(parent, body) ==
    parent.fields \o SelectSeq(body.annotated, LAMBDA f : ~HasKey(parent.fields, f[1]))

\* a check that reports the first conflicting immutable default only
FirstConflictOnly(parent, defaults) ==
    LET conflicts ==
            SelectSeq(Keys(parent.defaults),
                      LAMBDA n : /\ HasKey(parent.fields, n)
                                 /\ Lookup(parent.fields, n).immutable
                                 /\ Lookup(defaults, n) # None
                                 /\ ~PyEq(Lookup(defaults, n), Lookup(parent.defaults, n)))
    IN IF conflicts = <<>> THEN <<>> ELSE <<Head(conflicts)>>

\* step 5: the parent's immutable fields with a default for which the class
\* now holds another, non-None default
ImmutableErrorFields(parent, defaults) ==
    SelectSeq(Keys(parent.defaults),
              LAMBDA n : /\ HasKey(parent.fields, n)
                         /\ Lookup(parent.fields, n).immutable
                         /\ Lookup(defaults, n) # None
                         /\ ~PyEq(Lookup(defaults, n), Lookup(parent.defaults, n)))

\* ... raise FilingImmutableError, or set _fields and _defaults on the class
MetaChecked(fields, defaults, immutable_error_fields) ==
    IF immutable_error_fields # <<>>
    THEN [ok |-> FALSE, err |-> FilingImmutableError(immutable_error_fields),
          fields |-> <<>>, defaults |-> <<>>]
    ELSE [ok |-> TRUE, err |-> NoErr, fields |-> fields, defaults |-> defaults]
MetaCollected(parent, fields, defaults) ==
    MetaChecked(fields, defaults, ImmutableErrorFields(parent, defaults))

\* FilingMeta.__new__ for `class C(parent): body`
FilingMetaNew(parent, body) ==
    MetaCollected(parent, CollectFields(parent, body),
                  CollectDefaults(parent.defaults, HintNames(parent, body), body.attrs))

\* class bodies: `source = ...`, `checksum = ...`, a required doc_number and an
\* immutable additional_field, each declared with or without a default
BodyOf(src, chk, doc, add) ==
    [annotated |->
        (IF doc = "undeclared" THEN <<>>
         ELSE << <<"doc_number", [type |-> "str", indexed |-> FALSE,
                                  immutable |-> FALSE, required |-> TRUE]>> >>)
        \o (IF add = Absent THEN <<>>
            ELSE << <<"additional_field", [type |-> "str", indexed |-> FALSE,
                                           immutable |-> TRUE, required |-> FALSE]>> >>),
     attrs |-> Kw(<< <<"source", src>>, <<"checksum", chk>>,
                     <<"doc_number", IF doc \in {"undeclared", "declared"} THEN Absent
                                     ELSE IF doc = "none" THEN None ELSE Str(<<"d">>)>>,
                     <<"additional_field", add>> >>)]
ClassBodies ==
    {BodyOf(src, chk, doc, add) :
        src \in {Absent, None, Str(<<"s">>), Str(<<"t">>)},
        chk \in {Absent, Str(<<"k">>)},
        doc \in {"undeclared", "declared", "none", "default"},
        add \in {Absent, Str(<<"p">>), Str(<<"q">>)}}

\* class C(Filing): body
DefineClass(body) ==
    /\ result' = [op |-> "class", parent |-> FilingClass, body |-> body]
                    @@ FilingMetaNew(FilingClass, body)
    /\ UNCHANGED <<filing, rows, columns, files, dirs>>

\* class D(C): body, C being the class just defined from Filing
DefineSubclass(body) ==
    /\ result.op = "class" /\ result.ok /\ result.parent = FilingClass
    /\ result' = [op |-> "class",
                  parent |-> [fields |-> result.fields, defaults |-> result.defaults],
                  body |-> body]
                    @@ FilingMetaNew([fields |-> result.fields,
                                      defaults |-> result.defaults], body)
    /\ UNCHANGED <<filing, rows, columns, files, dirs>>

NextMeta ==
    \/ \E body \in ClassBodies : DefineClass(body)
    \/ \E body \in ClassBodies : DefineSubclass(body)

SpecMeta == Init /\ [][NextMeta]_vars

\* ---------------------------------------------------------------------------
\* Properties of the record model (SpecFiling)

\* the fields the id is said to be derived from: every declared field but
\* id, checksum and created_at
IdentityNames(cls) == Range(FieldNames(cls)) \ {"id", "checksum", "created_at"}

\* f is an unmodified record with a generated id and the last call constructed
\* another record of the same type, its id generated too
TwoGenerated ==
    /\ filing # NoFiling /\ filing.gen /\ filing.fresh
    /\ result.op = "new" /\ result.ok /\ result.gen
    /\ result.cls = filing.cls

SameIdentity ==
    \A n \in IdentityNames(filing.cls) : Get(filing.data, n) = Get(result.data, n)

\* C7: two records of the same type built with identical values in every
\* identity field get the same generated id, whatever their checksum, their
\* created_at and the time of construction
C7_IdDeterministic ==
    (TwoGenerated /\ SameIdentity) => Get(filing.data, "id") = Get(result.data, "id")

\* two records with the same identity, different checksum and created_at
C7_Witness ==
    /\ TwoGenerated /\ SameIdentity
    /\ Get(filing.data, "checksum") # Get(result.data, "checksum")
    /\ Get(filing.data, "created_at") # Get(result.data, "created_at")
    /\ Get(filing.data, "id") = Get(result.data, "id")

\* C8 as stated: two records of the same type that differ in the value of at
\* least one identity field (null against non-null included) get different ids
C8_DistinctIdentityDistinctId ==
    (TwoGenerated /\ ~SameIdentity) => Get(filing.data, "id") # Get(result.data, "id")

\* C9: no identity-field set contains id, checksum or created_at, and once a
\* record has an id no assignment changes it
C9_IdentitySetExcludes ==
    \A cls \in Classes :
        Range(get_identity_fields(cls)) \cap {"id", "checksum", "created_at"} = {}

C9_IdStable ==
    /\ [](C9_IdentitySetExcludes)
    /\ [][(result'.op = "setattr" /\ Get(filing.data, "id") # None)
            => Get(filing'.data, "id") = Get(filing.data, "id")]_vars

\* an assignment of another value to id has been refused and id kept
C9_Witness ==
    /\ result.op = "setattr" /\ result.name = "id"
    /\ ~result.ok
    /\ Get(filing.data, "id") # None
    /\ Get(filing.data, "id") # result.val

\* C10: an assignment to a declared field succeeds exactly when the field is
\* not immutable, or its current value is null, or the new value equals the
\* current one; otherwise FieldImmutableError names the field, the current and
\* the attempted value, and the stored value stays
C10_AssignStep ==
    (result'.op = "setattr" /\ IsField(filing.cls, result'.name)) =>
        /\ result'.ok <=>
              \/ ~FieldOf(filing.cls, result'.name).immutable
              \/ Get(filing.data, result'.name) = None
              \/ PyEq(result'.val, Get(filing.data, result'.name))
        /\ result'.ok => Get(filing'.data, result'.name) = result'.val
        /\ ~result'.ok =>
              /\ result'.err = FieldImmutableError(result'.name,
                                   Get(filing.data, result'.name), result'.val)
              /\ filing'.data = filing.data

ValidRecord == filing # NoFiling /\ ValidateFields(filing.cls, filing.data) = NoErr

\* C11: for every valid record r, from_dict(to_dict(r)) on r's own type
\* succeeds and yields a record of the same concrete type with the identical
\* field map
C11_RoundTripStep ==
    (/\ result.op = "to_dict"
     /\ result'.op = "from_dict"
     /\ result'.on = filing.cls
     /\ ValidRecord)
    => /\ result'.ok
       /\ result'.cls = filing.cls
       /\ result'.data = filing.data
C11_DictRoundTrip == [][C11_RoundTripStep]_vars

\* a valid EDGAR record holding a timestamp in an optional field, restored
\* equal on its own type
C11_Witness ==
    /\ ValidRecord
    /\ filing.cls = "EDGARFiling"
    /\ Get(filing.data, "filing_date") = Dt(2)
    /\ ~filing.fresh
    /\ result.op = "from_dict"
    /\ result.on = "EDGARFiling"
    /\ result.ok
    /\ result.data = filing.data

\* the fields of a construction attempt that break a rule, in declaration
\* order: required and null or absent, a value not of the declared type, or a
\* core field holding the empty string
Offending(cls, data, n) ==
    \/ FieldOf(cls, n).required /\ Get(data, n) = None
    \/ Get(data, n) # None /\ ~validate_value(FieldOf(cls, n), Get(data, n))
    \/ n \in Range(_core_fields) /\ Get(data, n) = Str(<<>>)
Offenders(cls, data) == SelectSeq(FieldNames(cls), LAMBDA n : Offending(cls, data, n))

\* C12: a construction attempt that violates validation fails with one batched
\* error naming every offending field in declaration order: every required
\* field that is null or absent, every field whose value does not match its
\* declared type, and every core field holding an empty string
C12_AllOffendersNamed ==
    (/\ result.op = "new"
     /\ ~result.ok
     /\ result.err.kind \in {"FilingRequiredError", "FilingValidationError"})
    => result.err.fields = Offenders(result.cls, result.data)

\* C13: constructing a record with an explicit None passed for a required core
\* field (id, source or name) fails with a missing-required error whose field
\* list contains that field; several such fields are all listed
C13_ExplicitNoneRejected ==
    result.op = "new" =>
        \A i \in DOMAIN result.kwargs :
            (result.kwargs[i][1] \in {"id", "source", "name"} /\ result.kwargs[i][2] = None)
            => /\ ~result.ok
               /\ result.err.kind = "FilingRequiredError"
               /\ result.kwargs[i][1] \in Range(result.err.fields)

\* ---------------------------------------------------------------------------
\* Properties of class definition (SpecMeta)

\* the required fields of `class C(parent): body`, in declaration order, to
\* which the body gives a default of None
RequiredNoneDefaults(parent, body) ==
    SelectSeq(Keys(parent.fields) \o Keys(body.annotated),
              LAMBDA n : /\ HasKey(body.attrs, n)
                         /\ Lookup(body.attrs, n) = None
                         /\ Lookup(parent.fields \o body.annotated, n).required)

\* C14: defining a record type in which a required field (core, or declared
\* required by the user) has a declared default of None fails at
\* type-definition time with a schema error listing every such field
C14_RequiredNoneDefaultRejected ==
    (result.op = "class" /\ RequiredNoneDefaults(result.parent, result.body) # <<>>)
    => /\ ~result.ok
       /\ result.err.kind = "FilingRequiredError"
       /\ result.err.fields = RequiredNoneDefaults(result.parent, result.body)

\* the inherited immutable fields with an ancestor default to which the body
\* assigns another, non-null default, in the order the ancestors fixed them
ConflictingDefaults(parent, body) ==
    SelectSeq(Keys(parent.defaults),
              LAMBDA n : /\ Lookup(parent.fields, n).immutable
                         /\ HasKey(body.attrs, n)
                         /\ Lookup(body.attrs, n) # None
                         /\ ~PyEq(Lookup(body.attrs, n), Lookup(parent.defaults, n)))

\* C15: a subtype that assigns to an inherited immutable field with an ancestor
\* default a non-null default different from the ancestor's fails at
\* type-definition time with an error listing every such field; a definition
\* without such a conflict, overriding defaults of mutable fields included,
\* is accepted
C15_ImmutableDefaultConflict ==
    result.op = "class" =>
        IF ConflictingDefaults(result.parent, result.body) # <<>>
        THEN /\ ~result.ok
             /\ result.err = FilingImmutableError(
                                 ConflictingDefaults(result.parent, result.body))
        ELSE result.ok

\* a subclass rejected for two conflicting immutable defaults
C15_Witness ==
    /\ result.op = "class"
    /\ ~result.ok
    /\ result.err.fields = <<"source", "additional_field">>
    /\ HasKey(result.body.attrs, "checksum")
    /\ HasKey(result.parent.defaults, "checksum")

\* ---------------------------------------------------------------------------
\* Properties of the catalog (SpecCatalog)

\* the row a write of record r leaves, given the columns after the write
WrittenRow(cols, r) == BatchRow(cols, r)
RowsOfId(rs, id) == {row \in rs : PyEq(row.id, id)}
\* the records written by the step just taken, in order
Written ==
    IF result'.op = "index" /\ result'.ok THEN <<[cls |-> result'.cls, data |-> result'.data]>>
    ELSE IF result'.op = "index_batch" /\ result'.ok THEN result'.filings
    ELSE <<>>
\* the last record of a list with the id
LastWithId(filings, id) ==
    filings[CHOOSE i \in DOMAIN filings :
                /\ PyEq(Get(filings[i].data, "id"), id)
                /\ \A j \in DOMAIN filings :
                      j > i => ~PyEq(Get(filings[j].data, "id"), id)]
CatalogIds == {Get(r.data, "id") : r \in CatalogRecords} \cup LookupIds

\* C16: the catalog holds at most one row per id, and the row of an id is
\* the one written by the most recent index or index_batch of a record with
\* that id: a write replaces the row of its id and leaves the others, clear
\* leaves none, and nothing else changes a row
C16_OneRowPerId == \A r1 \in rows : \A r2 \in rows : PyEq(r1.id, r2.id) => r1 = r2
C16_WriteStep ==
    IF result'.op = "clear" THEN rows' = {}
    ELSE \A id \in CatalogIds :
            IF \E i \in DOMAIN Written : PyEq(Get(Written[i].data, "id"), id)
            THEN RowsOfId(rows', id) = {WrittenRow(columns', LastWithId(Written, id))}
            ELSE RowsOfId(rows', id) = RowsOfId(rows, id)
C16_Upsert == [](C16_OneRowPerId) /\ [][C16_WriteStep]_vars

\* a batch that writes the id "x" twice has left the second record's row, next
\* to the row of another id
C16_Witness ==
    /\ result.op = "index_batch"
    /\ result.filings = <<RecX1, RecX3>>
    /\ RowsOfId(rows, Str(<<"x">>)) = {WrittenRow(columns, RecX3)}
    /\ Cardinality(rows) = 2

\* C17: the set of physical columns never shrinks, whatever is called
C17_ColumnsStep == Range(columns) \subseteq Range(columns')
C17_ColumnsMonotonic == [][C17_ColumnsStep]_vars

\* a clear has emptied a table that keeps the column an index added
C17_Witness ==
    /\ result.op = "clear"
    /\ rows = {}
    /\ "doc_id" \in Range(columns)

\* every indexed field of record r is a physical column, and the row of r's id
\* holds r's value of the field in that column
IndexedInColumns(r) ==
    \A n \in Range(get_indexed_fields(r.cls)) :
        /\ n \in Range(columns')
        /\ \E row \in RowsOfId(rows', Get(r.data, "id")) :
              ColumnValue(row, n) = Get(r.data, n)

\* C18 as stated: after a successful index(r) or index_batch containing r,
\* every field r's type marks indexed is a physical column and the row for
\* r.id holds r's value for each of them
C18_OriginalStep == \A i \in DOMAIN Written : IndexedInColumns(Written[i])
C18_Original == [][C18_OriginalStep]_vars

\* C18, amended: the same for index(r) and for every r that is the last record
\* of its id in the list given to index_batch
C18_AmendedStep ==
    \A i \in DOMAIN Written :
        Written[i] = LastWithId(Written, Get(Written[i].data, "id"))
        => IndexedInColumns(Written[i])
C18_IndexedColumns == [][C18_AmendedStep]_vars

\* a subtype record with an indexed field was indexed into a table that lacked
\* the column, and its row holds the value in the new column
C18_Witness ==
    /\ result.op = "index" /\ result.ok
    /\ result.cls = "ExtendedIndexedAndNonIndexedFiling"
    /\ "doc_id" \in Range(columns)
    /\ \E row \in RowsOfId(rows, Get(result.data, "id")) :
          /\ ColumnValue(row, "doc_id") = Str(<<"d">>)
          /\ ColumnValue(row, "created_at") = Dt(1)

\* C19: for every row the catalog holds, the serialized data column contains
\* none of the seven core fields and not _filing_class; the type name is kept
\* in a physical _filing_class column
C19_DataExcludesCore ==
    \A row \in rows :
        /\ DOMAIN JsonLoads(row.data) \cap (Range(_core_fields) \cup {"_filing_class"}) = {}
        /\ "_filing_class" \in Range(columns)

\* the row of the id holds what index wrote for record r
HoldsIndexed(rs, id, r) ==
    \E row \in RowsOfId(rs, id) : row.data = JsonDumps(IndexDict(r.cls, r.data))
\* what get gave for a record r of a subtype: r's exact type with the fields
\* the subtype adds when the resolver resolves the type's name, the base type
\* when it resolves none
GotSubtype(r) ==
    /\ result'.found
    /\ result'.ok
    /\ IF ResolverResolve(Str(ClassPath(r.cls))) # "none"
       THEN /\ result'.cls = r.cls
            /\ \A n \in Range(FieldNames(r.cls)) \ Range(_core_fields) :
                  Get(result'.data, n) = Get(r.data, n)
       ELSE result'.cls = "Filing"

\* C20 as stated: after index of an instance of a subtype T, get(id) returns
\* an instance of exactly T with T's additional fields populated whenever the
\* resolver resolves T's name, and an instance of the base type, instead of
\* failing, when the resolver returns none
C20_OriginalStep ==
    result'.op = "get" =>
        \A r \in CatalogRecords :
            (r.cls # "Filing" /\ HoldsIndexed(rows, result'.id, r)) => GotSubtype(r)
C20_Original == [][C20_OriginalStep]_vars

\* C20, amended: the same for an instance whose field values pass the
\* validation of construction
C20_AmendedStep ==
    result'.op = "get" =>
        \A r \in CatalogRecords :
            (/\ r.cls # "Filing"
             /\ HoldsIndexed(rows, result'.id, r)
             /\ ValidateFields(r.cls, r.data) = NoErr) => GotSubtype(r)
C20_PolymorphicGet == [][C20_AmendedStep]_vars

\* get gave back the indexed subtype record as its own type, the indexed and
\* the plain additional field populated
C20_Witness ==
    /\ result.op = "get"
    /\ result.found /\ result.ok
    /\ result.cls = "ExtendedIndexedAndNonIndexedFiling"
    /\ HoldsIndexed(rows, result.id, RecSub)
    /\ Get(result.data, "doc_id") = Str(<<"d">>)
    /\ Get(result.data, "memo") = Str(<<"m">>)

\* ---------------------------------------------------------------------------
\* Properties of the collection (Spec)

\* the last call was add(r, c): its id, and whether c hashes to r.checksum
AddedId == Get(result.data, "id")
ChecksumMatches(r) == PyEq(Str(Sha256Hex(r.content)), Get(r.data, "checksum"))
StoreUnchanged == rows' = rows /\ columns' = columns /\ files' = files /\ dirs' = dirs

\* C1: an add whose content does not hash to the record's checksum fails with
\* the checksum-mismatch error carrying the record id, the expected and the
\* actual checksum, and changes neither the storage nor the catalog
C1_MismatchStep ==
    (result'.op = "add" /\ ~ChecksumMatches(result')) =>
        /\ ~result'.ok
        /\ result'.err = CollectionChecksumMismatchError(
                             Get(result'.data, "id"),
                             Str(Sha256Hex(result'.content)),
                             Get(result'.data, "checksum"))
        /\ StoreUnchanged

C1_ChecksumMismatch == [][C1_MismatchStep]_vars

\* a mismatching add was refused by a collection that already holds a record
C1_Witness ==
    /\ result.op = "add" /\ ~ChecksumMatches(result)
    /\ result.err.kind = "CollectionChecksumMismatchError"
    /\ rows # {} /\ DOMAIN files # {}

\* C2 as stated: the catalog row is written only after the storage write has
\* succeeded, so an add that fails leaves no new row for the record's id
C2_FailedAddStep ==
    (result'.op = "add" /\ ~result'.ok) =>
        (HasRow(rows', Get(result'.data, "id")) => HasRow(rows, Get(result'.data, "id")))

C2_NoRowWithoutContent == [][C2_FailedAddStep]_vars

\* got is a record equal to r
EqualRecord(got, cls, data) ==
    got.found /\ got.ok /\ got.cls = cls /\ got.data = data
\* get_filing(id) gives a record equal to r, get_content(id) gives exactly c
ReadsBack(st, cls, data, content) ==
    \A now \in ClockReads(st.rows, Get(data, "id")) :
        /\ EqualRecord(get_filing(st, Get(data, "id"), now), cls, data)
        /\ get_content(st, Get(data, "id"), now) =
              [ok |-> TRUE, err |-> NoErr, found |-> TRUE, content |-> content]

\* the last step was a successful add for an id that had no row
AddedNew ==
    /\ result'.op = "add" /\ result'.ok
    /\ ~HasRow(rows, Get(result'.data, "id"))

\* C3 as stated: after a successful add(r, c) for an id with no row,
\* get_filing(r.id) returns a record equal to r and get_content(r.id) returns c
C3_OriginalStep ==
    AddedNew => ReadsBack(StNext, result'.cls, result'.data, result'.content)

C3_Original == [][C3_OriginalStep]_vars

\* the resolver resolves the record's type name to the record's type, and the
\* record's current field values pass the validation of its constructor
Restorable(cls, data) ==
    /\ ResolverResolve(Str(ClassPath(cls))) = cls
    /\ ValidateFields(cls, data) = NoErr

\* C3 amended: after a successful add(r, c) for an id with no row, where r's
\* type is one the resolver resolves and r's field values are valid for its
\* declared fields, get_filing(r.id) returns a record equal to r (same type,
\* same field map) and get_content(r.id) returns exactly c
C3_AmendedStep ==
    (AddedNew /\ Restorable(result'.cls, result'.data)) =>
        ReadsBack(StNext, result'.cls, result'.data, result'.content)

C3_RoundTrip == [][C3_AmendedStep]_vars

\* a subtype record with an additional indexed field has just been added and
\* reads back
C3_Witness ==
    /\ result.op = "add" /\ result.ok /\ ~result.skipped
    /\ result.cls = "ExtendedIndexedAndNonIndexedFiling"
    /\ Restorable(result.cls, result.data)
    /\ ReadsBack(St, result.cls, result.data, result.content)

\* C4 as stated: when add(r1, c1) and then add(r2, c2) both succeed, r1 and r2
\* have the same id and c1 # c2, get_content(id) returns c2 and the catalog
\* holds exactly one row for the id
C4_SecondAddStep ==
    (/\ result.op = "add" /\ result.ok
     /\ result'.op = "add" /\ result'.ok
     /\ PyEq(Get(result.data, "id"), Get(result'.data, "id"))
     /\ result.content # result'.content) =>
        /\ \A now \in ClockReads(rows', Get(result'.data, "id")) :
              get_content(StNext, Get(result'.data, "id"), now) =
                 [ok |-> TRUE, err |-> NoErr, found |-> TRUE, content |-> result'.content]
        /\ Cardinality({row \in rows' : PyEq(row.id, Get(result'.data, "id"))}) = 1

C4_LastContentWins == [][C4_SecondAddStep]_vars

\* the files other than the one at path are the same before and after the step
OnlyFileChanged(path) ==
    \A p \in (DOMAIN files \cup DOMAIN files') \ {path} :
        p \in DOMAIN files /\ p \in DOMAIN files' /\ files'[p] = files[p]

\* C5: an add of a record whose id already has a catalog row raises no
\* duplicate error (it succeeds whenever the checksum matches, the row
\* restores and the storage accepts the write), leaves the catalog unchanged,
\* and changes at most the stored content at the resolved key
C5_DuplicateStep ==
    (result'.op = "add" /\ HasRow(rows, Get(result'.data, "id"))) =>
        /\ result'.err.kind # "CatalogAlreadyExistsError"
        /\ (/\ ChecksumMatches(result')
            /\ \A now \in ClockReads(rows, Get(result'.data, "id")) :
                  get_filing(St, Get(result'.data, "id"), now).ok
            /\ LocalStorageSave(files, dirs, Str(result'.key), result'.content).ok)
              => (result'.ok /\ Get(files', ResolvePath(result'.key)) = result'.content)
        /\ rows' = rows /\ columns' = columns
        /\ OnlyFileChanged(ResolvePath(result'.key))

C5_DuplicateAdd == [][C5_DuplicateStep]_vars

\* a second record with the id of a stored one was added: the row is still the
\* first record's, the content is the second's
C5_Witness ==
    /\ result.op = "add" /\ result.ok /\ result.skipped
    /\ \A now \in ClockReads(rows, AddedId) :
          get_filing(St, AddedId, now).data # result.data
    /\ Get(files, ResolvePath(result.key)) = result.content

\* ---------------------------------------------------------------------------
\* Properties of the local storage (SpecStorage)

\* the key is empty, absolute, has a ".." segment, or resolves outside the
\* base directory
BadKey(key) ==
    \/ key = <<>>
    \/ key[1] = "/"
    \/ <<".", ".">> \in Range(SplitSlash(key))
    \/ ~IsRelativeTo(ResolvePath(key), BaseDir)

FilesInsideBase == \A p \in DOMAIN files : IsRelativeTo(p, BaseDir)

\* C6: save and load_by_path with a key that is empty, absolute, contains a
\* ".." segment or resolves outside the base directory fail before any read
\* or write, and every file written lies inside the base directory
C6_BadKeyStep ==
    (/\ result'.op \in {"save", "load_by_path"}
     /\ result'.key # None
     /\ BadKey(result'.key.v)) =>
        /\ ~result'.ok
        /\ result'.io = <<>>
        /\ files' = files /\ dirs' = dirs

C6_KeysConfined == [](FilesInsideBase) /\ [][C6_BadKeyStep]_vars

\* a save through the link that leaves the base directory was refused while
\* the storage holds a file
C6_Witness ==
    /\ result.op = "save" /\ result.key = Str(Key_link)
    /\ ~result.ok /\ result.io = <<>>
    /\ DOMAIN files # {} /\ FilesInsideBase

---------------------------------------------------------------------------
(* Query expressions.  The SQL text is the sequence of its tokens; an Expr   *)
(* is its sql and its params.  The expressions bound to names so far are    *)
(* kept in result.exprs, each with the combinator calls that built it       *)
(* written in prefix form (history).                                        *)

\* leaves and combinator calls of the expressions held at one time
MaxNodes == 5

Expr(sql, params) == [sql |-> sql, params |-> params]

\* the column of a Field: its name, or json_extract(data, '$.name')
ColumnSql(name, indexed) ==
    IF indexed THEN <<name>> ELSE <<"json_extract(data,'$." \o name \o "')">>
\* Field._create_expr
_create_expr(name, indexed, op, value) ==
    Expr(ColumnSql(name, indexed) \o <<op, "?">>, <<value>>)
\* ", ".join(["?"] * n)
RECURSIVE Placeholders(_)
Placeholders(n) ==
    IF n = 0 THEN <<>> ELSE IF n = 1 THEN <<"?">>
    ELSE <<"?", ",">> \o Placeholders(n - 1)
\* Field.in_
in_(name, indexed, values) ==
    Expr(ColumnSql(name, indexed) \o <<"IN", "(">> \o Placeholders(Len(values)) \o <<")">>,
         values)
\* Field.between
between(name, indexed, lower, upper) ==
    Expr(ColumnSql(name, indexed) \o <<"BETWEEN", "?", "AND", "?">>, <<lower, upper>>)
\* Field.is_null
is_null(name, indexed) == Expr(ColumnSql(name, indexed) \o <<"IS", "NULL">>, <<>>)

\* an AND whose parameters are those of the right operand, then the left
AndParamsSwapped(self, other) ==
    Expr(self.sql \o <<"AND">> \o other.sql, other.params \o self.params)
\* Expr.__and__
ExprAnd(self, other) ==
    Expr(self.sql \o <<"AND">> \o other.sql, self.params \o other.params)
\* Expr.__or__
ExprOr(self, other) ==
    Expr(self.sql \o <<"OR">> \o other.sql, self.params \o other.params)
\* Expr.__invert__
ExprInvert(self) == Expr(<<"NOT", "(">> \o self.sql \o <<")">>, self.params)

\* the leaf comparisons of the model, by the name of their column: an
\* equality on an indexed field, IN with two values on a field kept in data,
\* BETWEEN, and IS NULL
LeafNames == {"id", "memo", "created_at", "doc_id"}
Leaf(n) ==
    CASE n = "id" -> _create_expr("id", TRUE, "=", Str(<<"x">>))
      [] n = "memo" -> in_("memo", FALSE, <<Str(<<"m">>), Str(<<"n">>)>>)
      [] n = "created_at" -> between("created_at", TRUE, Dt(1), Dt(2))
      [] n = "doc_id" -> is_null("doc_id", TRUE)

Held == IF "exprs" \in DOMAIN result THEN result.exprs ELSE <<>>
RECURSIVE Nodes(_)
Nodes(exprs) == IF exprs = <<>> THEN 0 ELSE Len(Head(exprs).history) + Nodes(Tail(exprs))
Bound(e, history) == [sql |-> e.sql, params |-> e.params, history |-> history]
Top == Held[Len(Held)]
Below == Held[Len(Held) - 1]

\* e = <Field>.<comparison>
MakeLeaf(n) ==
    /\ Nodes(Held) < MaxNodes
    /\ result' = [op |-> "leaf", ok |-> TRUE, err |-> NoErr,
                  exprs |-> Append(Held, Bound(Leaf(n), <<n>>))]
    /\ UNCHANGED <<filing, rows, columns, files, dirs>>

\* e = e1 & e2, on the two expressions bound last
And ==
    /\ Len(Held) >= 2 /\ Nodes(Held) < MaxNodes
    /\ result' = [op |-> "and", ok |-> TRUE, err |-> NoErr,
                  exprs |-> Append(SubSeq(Held, 1, Len(Held) - 2),
                                   Bound(ExprAnd(Below, Top),
                                         <<"and">> \o Below.history \o Top.history))]
    /\ UNCHANGED <<filing, rows, columns, files, dirs>>

\* e = e1 | e2
Or ==
    /\ Len(Held) >= 2 /\ Nodes(Held) < MaxNodes
    /\ result' = [op |-> "or", ok |-> TRUE, err |-> NoErr,
                  exprs |-> Append(SubSeq(Held, 1, Len(Held) - 2),
                                   Bound(ExprOr(Below, Top),
                                         <<"or">> \o Below.history \o Top.history))]
    /\ UNCHANGED <<filing, rows, columns, files, dirs>>

\* e = ~e1
Invert ==
    /\ Len(Held) >= 1 /\ Nodes(Held) < MaxNodes
    /\ result' = [op |-> "invert", ok |-> TRUE, err |-> NoErr,
                  exprs |-> Append(SubSeq(Held, 1, Len(Held) - 1),
                                   Bound(ExprInvert(Top), <<"not">> \o Top.history))]
    /\ UNCHANGED <<filing, rows, columns, files, dirs>>

NextExpr ==
    \/ \E n \in LeafNames : MakeLeaf(n)
    \/ And
    \/ Or
    \/ Invert

SpecExpr == Init /\ [][NextExpr]_vars

---------------------------------------------------------------------------
(* Further claims about the catalog (specification SpecCatalog) *)

\* index called for each record of a list in order, stopping at the first error
RECURSIVE IndexEach(_, _, _)
IndexEach(rs, cols, filings) ==
    IF filings = <<>> THEN [ok |-> TRUE, err |-> NoErr, rows |-> rs, columns |-> cols]
    ELSE LET one == CatalogIndex(rs, cols, Head(filings).cls, Head(filings).data)
         IN IF one.ok THEN IndexEach(one.rows, one.columns, Tail(filings)) ELSE one

\* C23: index_batch(records) leaves the catalog (rows and columns) as calling
\* index(r) for each record in order does, and fails in the same cases, also
\* for records with an empty core field and for lists that repeat an id.
C23_BatchStep ==
    result'.op = "index_batch" =>
        LET each == IndexEach(rows, columns, result'.filings)
        IN /\ result'.ok = each.ok
           /\ rows' = each.rows
           /\ columns' = each.columns
C23_BatchAsIndexes == [][C23_BatchStep]_vars

\* the first core field that is absent, None or "" in the record
IsBlank(data, n) == n \notin DOMAIN data \/ data[n] = None \/ data[n] = Str(<<>>)
FirstBlankCore(data) ==
    _core_fields[CHOOSE i \in DOMAIN _core_fields :
                    /\ IsBlank(data, _core_fields[i])
                    /\ \A j \in 1..(i - 1) : ~IsBlank(data, _core_fields[j])]

\* C24: index(record) with a core field absent, None or "" fails with the
\* required-value error naming the first such field, and leaves the rows and
\* the columns as they were.
C24_BlankStep ==
    (/\ result'.op = "index"
     /\ \E n \in Range(_core_fields) : IsBlank(result'.data, n)) =>
        /\ ~result'.ok
        /\ result'.err.kind = "CatalogRequiredValueError"
        /\ result'.err.fields = <<FirstBlankCore(result'.data)>>
        /\ rows' = rows
        /\ columns' = columns
C24_BlankCoreRejected == [][C24_BlankStep]_vars

\* a subtype record with two blank core fields was refused on a catalog that
\* holds rows and has no column of that subtype
C24_Witness ==
    /\ result.op = "index" /\ ~result.ok
    /\ result.err.fields = <<"checksum">>
    /\ IsBlank(result.data, "is_zip")
    /\ result.cls = "ExtendedIndexedAndNonIndexedFiling"
    /\ "doc_id" \notin Range(columns)
    /\ rows # {}

---------------------------------------------------------------------------
(* Claims about query expressions (specification SpecExpr) *)

\* the column a token names, if it names one
ColumnOf(tok) ==
    IF \E n \in LeafNames : ColumnSql(n, TRUE) = <<tok>> \/ ColumnSql(n, FALSE) = <<tok>>
    THEN {CHOOSE n \in LeafNames : ColumnSql(n, TRUE) = <<tok>> \/ ColumnSql(n, FALSE) = <<tok>>}
    ELSE {}
\* the parameters of the leaves in the order their columns appear in the text
RECURSIVE LeafParamsInText(_)
LeafParamsInText(sql) ==
    IF sql = <<>> THEN <<>>
    ELSE (IF ColumnOf(Head(sql)) = {} THEN <<>>
          ELSE Leaf(CHOOSE n \in ColumnOf(Head(sql)) : TRUE).params)
         \o LeafParamsInText(Tail(sql))
CountPlaceholders(sql) == Len(SelectSeq(sql, LAMBDA tok : tok = "?"))

\* C25: for every expression built from leaves with &, | and ~ the parameter
\* list is the concatenation of its leaves' parameter lists in the order the
\* leaves appear in the SQL text, and the SQL has as many "?" as parameters.
C25_ParamsFollowText ==
    \A i \in DOMAIN Held :
        /\ Held[i].params = LeafParamsInText(Held[i].sql)
        /\ CountPlaceholders(Held[i].sql) = Len(Held[i].params)

\* an AND of an OR and a BETWEEN: three leaves with 2, 0 and 2 parameters
C25_Witness ==
    \E i \in DOMAIN Held :
        /\ Held[i].history = <<"and", "or", "memo", "doc_id", "created_at">>
        /\ Len(Held[i].params) = 4
\* The value of a WHERE clause under SQL precedence (NOT over AND over OR),
\* given the truth value of each leaf comparison by its column.  Each parser
\* gives the value of the part it read and the tokens left.
LeafLength(toks) ==
    CASE toks[2] = "IN" -> CHOOSE k \in DOMAIN toks :
                              toks[k] = ")" /\ \A j \in 1..(k - 1) : toks[j] # ")"
      [] toks[2] = "BETWEEN" -> 5
      [] OTHER -> 3
RECURSIVE ParseOr(_, _), ParseAnd(_, _), ParseNot(_, _), ParsePrimary(_, _)
RECURSIVE OrRest(_, _), AndRest(_, _)
ParsePrimary(toks, env) ==
    IF Head(toks) = "("
    THEN [val |-> ParseOr(Tail(toks), env).val,
          rest |-> Tail(ParseOr(Tail(toks), env).rest)]
    ELSE [val |-> env[CHOOSE n \in ColumnOf(Head(toks)) : TRUE],
          rest |-> SubSeq(toks, LeafLength(toks) + 1, Len(toks))]
ParseNot(toks, env) ==
    IF Head(toks) = "NOT"
    THEN [val |-> ~ParseNot(Tail(toks), env).val, rest |-> ParseNot(Tail(toks), env).rest]
    ELSE ParsePrimary(toks, env)
AndRest(left, env) ==
    IF left.rest # <<>> /\ Head(left.rest) = "AND"
    THEN AndRest([val |-> left.val /\ ParseNot(Tail(left.rest), env).val,
                  rest |-> ParseNot(Tail(left.rest), env).rest], env)
    ELSE left
ParseAnd(toks, env) == AndRest(ParseNot(toks, env), env)
OrRest(left, env) ==
    IF left.rest # <<>> /\ Head(left.rest) = "OR"
    THEN OrRest([val |-> left.val \/ ParseAnd(Tail(left.rest), env).val,
                 rest |-> ParseAnd(Tail(left.rest), env).rest], env)
    ELSE left
ParseOr(toks, env) == OrRest(ParseAnd(toks, env), env)
SqlValue(sql, env) == ParseOr(sql, env).val

\* the value of the combinator calls, read from their prefix form
RECURSIVE CallsValue(_, _)
CallsValue(history, env) ==
    CASE Head(history) = "not" ->
            [val |-> ~CallsValue(Tail(history), env).val,
             rest |-> CallsValue(Tail(history), env).rest]
      [] Head(history) \in {"and", "or"} ->
            LET left == CallsValue(Tail(history), env)
                right == CallsValue(left.rest, env)
            IN [val |-> IF Head(history) = "and" THEN left.val /\ right.val
                        ELSE left.val \/ right.val,
                rest |-> right.rest]
      [] OTHER -> [val |-> env[Head(history)], rest |-> Tail(history)]

\* C26: the SQL compiled for a nested expression denotes the boolean function
\* of the combinator calls that built it, for every assignment of truth values
\* to its leaves under SQL precedence: (A | B) & C is true exactly when
\* (A or B) and C, and A & (B | C) exactly when A and (B or C).
C26_SqlMeansCalls ==
    \A i \in DOMAIN Held : \A env \in [LeafNames -> BOOLEAN] :
        SqlValue(Held[i].sql, env) = CallsValue(Held[i].history, env).val


---------------------------------------------------------------------------
(* Claims about the locator (specification SpecLocator) *)

\* the text, or the placeholder "_" when it is empty
OrPlaceholder(text) == IF text = <<>> THEN <<"_">> ELSE text
\* the extension the claim describes: ".zip" when is_zip is set, "." and the
\* format when the format passes the whitelist, else ".xbrl"
ClaimedExtension(data) ==
    IF Truthy(Get(data, "is_zip")) THEN <<".", "z", "i", "p">>
    ELSE IF SuffixOfFormat(CleanFormat(Get(data, "format"))) # <<>>
    THEN SuffixOfFormat(CleanFormat(Get(data, "format")))
    ELSE <<".">> \o Chars_xbrl

\* C21: Locator.resolve(record) always returns {source}/{id}{extension}, an
\* empty source or id replaced by "_", where the extension is ".zip" when
\* is_zip is set, else "." and the format when the format is non-empty and made
\* of alphanumerics, "-" and "_", else the default ".xbrl".
C21_ResolveFormat ==
    result.op = "resolve" =>
        result.key = OrPlaceholder(PyStr(Get(filing.data, "source"))) \o <<"/">>
                        \o OrPlaceholder(PyStr(Get(filing.data, "id")))
                        \o ClaimedExtension(filing.data)

---------------------------------------------------------------------------
(* Further claims about the collection (specification Spec) *)

\* C22: Collection.get(id) for an id without a catalog row returns None for the
\* record and None for the content and raises nothing, also when other
\* records were added before.
C22_GetMissing ==
    (result.op = "get" /\ ~HasRow(rows, result.id)) =>
        (result.ok /\ ~result.found /\ ~result.has_content)

---------------------------------------------------------------------------
(* Claims about assignments after construction (specification SpecAssign) *)

ImmutableCore == {n \in Range(_core_fields) : CoreField[n].immutable}
MutableCore == Range(_core_fields) \ ImmutableCore
\* Catalog.index's core-field validation accepts the record bound to f
IndexAccepts == MissingCore(IndexDict(filing.cls, filing.data)) = <<>>

\* C28 as stated: after construction and any sequence of successful
\* assignments all seven core fields are non-null and the core string fields
\* non-empty, so that Catalog.index's core-field validation accepts the record.
C28_Original ==
    filing # NoFiling =>
        /\ \A n \in Range(_core_fields) : ~IsBlank(filing.data, n)
        /\ IndexAccepts

\* C28, amended: a record as constructed has all seven core fields non-null
\* and non-empty; after any sequence of assignments the five immutable core
\* fields still are, while checksum and is_zip hold whatever was assigned last,
\* None and "" included, and Catalog.index's core-field validation accepts the
\* record exactly when neither of the two is None or "".
C28_CoreAfterAssign ==
    filing # NoFiling =>
        /\ \A n \in ImmutableCore : ~IsBlank(filing.data, n)
        /\ filing.fresh => \A n \in MutableCore : ~IsBlank(filing.data, n)
        /\ IndexAccepts <=> \A n \in MutableCore : ~IsBlank(filing.data, n)

\* checksum = None was accepted after source = "" had been tried; the record
\* is one Catalog.index refuses
C28_Witness ==
    /\ filing # NoFiling
    /\ result.op = "setattr" /\ result.ok /\ result.name = "checksum"
    /\ result.val = None
    /\ Get(filing.data, "checksum") = None
    /\ ~IndexAccepts

\* the id of f is the digest of its current identity-field values
IdIsDigest(f) == Get(f.data, "id") = _generate_filing_id(f.cls, f.data)
SameIdentityValues(data1, data2, cls) ==
    \A n \in IdentityNames(cls) : Get(data1, n) = Get(data2, n)

\* C29 as stated: for a record whose id was generated, after any sequence of
\* successful assignments (to is_zip and to mutable additional fields too) the
\* id equals the digest of the record's current identity-field values.
C29_Original == (filing # NoFiling /\ filing.gen) => IdIsDigest(filing)

\* C29, amended: the generated id equals the digest of the identity-field
\* values as constructed, and an assignment that leaves every identity field
\* at its value (to checksum, or of the value a field holds) keeps it equal to
\* the digest of the current values; an assignment that changes is_zip or a
\* mutable additional field leaves the id as it was.
C29_FreshDigest == (filing # NoFiling /\ filing.gen /\ filing.fresh) => IdIsDigest(filing)
C29_AssignStep ==
    (result'.op = "setattr" /\ filing.gen) =>
        /\ Get(filing'.data, "id") = Get(filing.data, "id")
        /\ (IdIsDigest(filing) /\ SameIdentityValues(filing.data, filing'.data, filing.cls))
              => IdIsDigest(filing')
C29_IdFollowsConstruction == [](C29_FreshDigest) /\ [][C29_AssignStep]_vars

\* a record with a generated id whose checksum was changed: id still the digest
C29_Witness ==
    /\ filing # NoFiling /\ filing.gen /\ ~filing.fresh
    /\ result.op = "setattr" /\ result.ok /\ result.name = "checksum"
    /\ Get(filing.data, "checksum") = Str(Sha256Hex(<<"c", "2">>))
    /\ filing.cls = "ExtendedIndexedAndNonIndexedFiling"
    /\ IdIsDigest(filing)

---------------------------------------------------------------------------
(* Claims about content and storage keys (specification SpecKeys) *)

\* what get_content(id) can return in a state of the collection
ContentsOf(st, id) == {get_content(st, id, now) : now \in ClockReads(st.rows, id)}
RowChecksum(rs, id) == Get(get_raw(rs, id), "checksum")
ContentMatchesRow(st, id) ==
    \A got \in ContentsOf(st, id) :
        (got.ok /\ got.found) => PyEq(Str(Sha256Hex(got.content)), RowChecksum(st.rows, id))

OwnRow ==
    RowsOfId(rows', Get(result'.data, "id")) =
        {RowOf(columns', result'.cls, IndexDict(result'.cls, result'.data))}
C27_AmendedStep ==
    (result'.op = "add" /\ result'.ok) =>
        /\ ~result'.skipped => OwnRow
        /\ OwnRow =>
              /\ ContentMatchesRow(StNext, Get(result'.data, "id"))
              /\ \A got \in ContentsOf(StNext, Get(result'.data, "id")) :
                    got.ok /\ got.found /\ got.content = result'.content
PlainId(id) == id.t = "str" /\ \A i \in DOMAIN id.v : id.v[i] \notin {"/", "."}
KeysDiffer(ids) ==
    \A r1, r2 \in KeyRecords :
        (/\ Get(r1.data, "id") \in ids /\ Get(r2.data, "id") \in ids
         /\ Get(r1.data, "id") # Get(r2.data, "id"))
            => LocatorResolve(r1.data) # LocatorResolve(r2.data)
OthersKeep(ids) ==
    (result'.op = "add" /\ result'.ok /\ Get(result'.data, "id") \in ids) =>
        \A id \in ids \ {Get(result'.data, "id")} :
            HasRow(rows, id) => ContentsOf(StNext, id) = ContentsOf(St, id)

PlainIds == {id \in KeyIds : PlainId(id)}
====
